---- MODULE Spec2Model ----
(***************************************************************************)
(* Structa: schema-driven validation and marshalling of record types.      *)
(*                                                                         *)
(* Two library versions are modelled:                                      *)
(*   V2.4  src/src/examples/validation/structa.h  (FieldSchema metadata,   *)
(*         validateSchema, self-validating serializeWithResult)            *)
(*   V2    src/src/structa.h  (validator objects, validate())              *)
(*                                                                         *)
(* Numbers that may be fractional (float fields, float bounds, JSON        *)
(* numerals) are held in HALVES: the integer h stands for h/2.  Integral   *)
(* C++ values (int, long) are held as plain integers.                      *)
(***************************************************************************)
EXTENDS Integers, Sequences, FiniteSets, TLC

VARIABLES
    T,               \* the record type the calls are made on
    json,            \* the text handed to deserialize
    inst,            \* the instance handed to serialize
    fed,             \* whether json is the text serializeWithResult(inst) produced
    totalAllocated,  \* MemoryTracker::totalAllocated
    peakUsage,       \* MemoryTracker::peakUsage
    op,              \* the last operation that returned
    cenv,            \* what the environment did during it
    res,             \* the SerializationResult the last ...WithResult call returned
    ret,             \* the value the last convenience call returned
    nops,            \* number of direct MemoryTracker calls made so far
    procs            \* the calls of concurrent threads of control, step by step

vars == <<T, json, inst, fed, totalAllocated, peakUsage, op, cenv, res, ret, nops, procs>>

(***************************************************************************)
(* SerializationError, ErrorInfo, SerializationResult                      *)
(***************************************************************************)
SerializationError ==
    [SUCCESS |-> "SUCCESS", BUFFER_OVERFLOW |-> "BUFFER_OVERFLOW",
     INVALID_JSON |-> "INVALID_JSON", TYPE_MISMATCH |-> "TYPE_MISMATCH",
     FIELD_MISSING |-> "FIELD_MISSING",
     MEMORY_ALLOCATION_FAILED |-> "MEMORY_ALLOCATION_FAILED",
     VALIDATION_FAILED |-> "VALIDATION_FAILED"]

ErrorInfo(c, msg, path) == [code |-> c, message |-> msg, fieldPath |-> path]

\* SerializationResult<void>
SuccessVoid == [success |-> TRUE, error |-> ErrorInfo(SerializationError.SUCCESS, "", "")]
FailureVoid(c, msg, path) == [success |-> FALSE, error |-> ErrorInfo(c, msg, path)]

\* SerializationResult<T>; Failure leaves data default-constructed (dflt)
Success(value) == [success |-> TRUE, data |-> value, error |-> ErrorInfo(SerializationError.SUCCESS, "", "")]
Failure(c, msg, path, dflt) == [success |-> FALSE, data |-> dflt, error |-> ErrorInfo(c, msg, path)]

(***************************************************************************)
(* Floats of the schema: NAN means "no bound".                             *)
(***************************************************************************)
NAN == [nan |-> TRUE, h |-> 0]
Halves(h) == [nan |-> FALSE, h |-> h]
Whole(n) == Halves(2 * n)
isnan(x) == x.nan

\* (long)x for a float x: truncation toward zero
CastLong(x) == IF x.h >= 0 THEN x.h \div 2 ELSE -((-x.h) \div 2)

(***************************************************************************)
(* The generic value (ArduinoJson JsonVariant).                            *)
(***************************************************************************)
JNull == [k |-> "null"]
JInt(n) == [k |-> "int", n |-> n]
JFloat(h) == [k |-> "float", h |-> h]
JBool(b) == [k |-> "bool", b |-> b]
JStr(s) == [k |-> "str", s |-> s]
JObj(m) == [k |-> "obj", m |-> m]
JArr == [k |-> "arr"]

\* an object with no member; also what as<JsonObject>() gives for a non-object
NoMembers == <<>>

containsKey(o, key) == key \in DOMAIN o

\* v.is<long>() || v.is<int>()
IsInteger(v) == v.k = "int"
\* v.is<float>() || v.is<double>(): integral numbers count as floats
IsFloat(v) == v.k \in {"int", "float"}
IsBool(v) == v.k = "bool"
IsCharPtr(v) == v.k = "str"
IsJsonObject(v) == v.k = "obj"

\* doc.as<JsonObject>(), obj[key].as<JsonObject>()
AsJsonObject(v) == IF v.k = "obj" THEN v.m ELSE NoMembers

(***************************************************************************)
(* FieldType, StructaTypeResolver, FieldMeta and its named constructors    *)
(***************************************************************************)
FieldType ==
    [INT |-> "INT", FLOAT |-> "FLOAT", BOOL |-> "BOOL", STRING |-> "STRING",
     OBJECT |-> "OBJECT", UNKNOWN |-> "UNKNOWN"]

\* a C++ field type is a primitive type name, or "struct" for a record type
HasSerialize(ctype) == ctype = "struct"

\* StructaTypeResolver that takes every unmapped primitive type for an integer
StructaTypeResolver_UnmappedIsInt(ctype) ==
    CASE ctype \in {"int", "long", "unsigned int", "unsigned long"} -> FieldType.INT
      [] ctype \in {"float", "double"} -> FieldType.FLOAT
      [] ctype = "bool" -> FieldType.BOOL
      [] ctype = "String" -> FieldType.STRING
      [] HasSerialize(ctype) -> FieldType.OBJECT
      [] OTHER -> FieldType.INT

StructaTypeResolver(ctype) ==
    CASE ctype \in {"int", "long", "unsigned int", "unsigned long"} -> FieldType.INT
      [] ctype \in {"float", "double"} -> FieldType.FLOAT
      [] ctype = "bool" -> FieldType.BOOL
      [] ctype = "String" -> FieldType.STRING
      [] HasSerialize(ctype) -> FieldType.OBJECT
      [] OTHER -> FieldType.UNKNOWN

NULLPTR == <<>>

FieldMeta ==
    [minValue |-> NAN, maxValue |-> NAN, minLength |-> -1, maxLength |-> -1,
     allowedValues |-> NULLPTR, allowedCount |-> 0, required |-> TRUE, validate |-> TRUE]

makeMetaNone == [FieldMeta EXCEPT !.validate = FALSE]
makeMetaOptional == [FieldMeta EXCEPT !.required = FALSE]
makeMetaOptionalUnvalidated == [FieldMeta EXCEPT !.required = FALSE, !.validate = FALSE]
makeMetaRange(minV, maxV) == [FieldMeta EXCEPT !.minValue = minV, !.maxValue = maxV]
makeMetaStrlen(minL, maxL) == [FieldMeta EXCEPT !.minLength = minL, !.maxLength = maxL]
makeMetaEnum(values, count) == [FieldMeta EXCEPT !.allowedValues = values, !.allowedCount = count]

META_NONE == makeMetaNone
META_OPTIONAL == makeMetaOptional
META_OPTIONAL_UNVALIDATED == makeMetaOptionalUnvalidated
META_RANGE(minV, maxV) == makeMetaRange(minV, maxV)
META_STRLEN(minL, maxL) == makeMetaStrlen(minL, maxL)
META_ENUM(valuesArray) == makeMetaEnum(valuesArray, Len(valuesArray))

\* a primitive field has no record type
NoRec == [name |-> "", lib |-> "", fields |-> <<>>, validators |-> <<>>]

\* SCHEMA_ENTRY(type, name, meta); ctype and rec keep the declared C++ type
\* (DECLARE), rec being the record type of a nested field
SCHEMA_ENTRY(ctype, name, meta, rec) ==
    [name |-> name, type |-> StructaTypeResolver(ctype),
     required |-> meta.required, validate |-> meta.validate,
     minValue |-> meta.minValue, maxValue |-> meta.maxValue,
     minLength |-> meta.minLength, maxLength |-> meta.maxLength,
     allowedValues |-> meta.allowedValues, allowedCount |-> meta.allowedCount,
     ctype |-> ctype, rec |-> rec]

\* DEFINE_STRUCTA(structName, FIELD_LIST) of V2.4
DEFINE_STRUCTA(structName, fieldList) ==
    [name |-> structName, lib |-> "v24", fields |-> fieldList, validators |-> <<>>]

\* getSchema(count)
getSchema(R) == R.fields

(***************************************************************************)
(* validateSchema (V2.4)                                                   *)
(***************************************************************************)
strlen(s) == Len(s)

\* for (j < f.allowedCount) if (strcmp(s, f.allowedValues[j]) == 0) ok = true
\* the strcmp loop with j < f.allowedCount - 1
InAllowedValues_LastSkipped(f, s) == \E j \in 1..(f.allowedCount - 1) : f.allowedValues[j] = s

InAllowedValues(f, s) == \E j \in 1..f.allowedCount : f.allowedValues[j] = s

TypeMismatchFailure(f, msg) == FailureVoid(SerializationError.TYPE_MISMATCH, msg, f.name)

\* case FieldType::INT
validateInt(f, v) ==
    IF ~IsInteger(v) THEN TypeMismatchFailure(f, "Expected different type")
    ELSE LET val == v.n IN
         IF ~isnan(f.minValue) /\ val < CastLong(f.minValue)
           THEN TypeMismatchFailure(f, "Value below min")
         ELSE IF ~isnan(f.maxValue) /\ val > CastLong(f.maxValue)
           THEN TypeMismatchFailure(f, "Value above max")
         ELSE SuccessVoid

\* the float that is not a number; every comparison with it is false
FloatNaN == 1000000

\* val < bound and val > bound for a float val
FloatLess(val, bound) == val # FloatNaN /\ val < bound
FloatGreater(val, bound) == val # FloatNaN /\ val > bound

\* v.as<float>() of a number, in halves
AsFloat(v) == IF v.k = "int" THEN 2 * v.n ELSE IF v.k = "float" THEN v.h ELSE 0

\* case FieldType::FLOAT with v.is<float>() false for an integral value
validateFloat_IntegralRejected(f, v) ==
    IF ~(v.k = "float") THEN TypeMismatchFailure(f, "Expected different type")
    ELSE LET val == AsFloat(v) IN
         IF ~isnan(f.minValue) /\ FloatLess(val, f.minValue.h)
           THEN TypeMismatchFailure(f, "Value below min")
         ELSE IF ~isnan(f.maxValue) /\ FloatGreater(val, f.maxValue.h)
           THEN TypeMismatchFailure(f, "Value above max")
         ELSE SuccessVoid

\* case FieldType::FLOAT
validateFloat(f, v) ==
    IF ~IsFloat(v) THEN TypeMismatchFailure(f, "Expected different type")
    ELSE LET val == AsFloat(v) IN
         IF ~isnan(f.minValue) /\ FloatLess(val, f.minValue.h)
           THEN TypeMismatchFailure(f, "Value below min")
         ELSE IF ~isnan(f.maxValue) /\ FloatGreater(val, f.maxValue.h)
           THEN TypeMismatchFailure(f, "Value above max")
         ELSE SuccessVoid

\* case FieldType::STRING
validateString(f, v) ==
    IF ~IsCharPtr(v) THEN TypeMismatchFailure(f, "Expected different type")
    ELSE LET s == v.s
             len == strlen(s) IN
         IF f.minLength >= 0 /\ len < f.minLength
           THEN TypeMismatchFailure(f, "String too short")
         ELSE IF f.maxLength >= 0 /\ len > f.maxLength
           THEN TypeMismatchFailure(f, "String too long")
         ELSE IF f.allowedValues # NULLPTR /\ ~InAllowedValues(f, s)
           THEN TypeMismatchFailure(f, "Invalid enum value")
         ELSE SuccessVoid

\* validateType that also rejects a nested object without members
validateType_ObjectContentsChecked(f, v) ==
    CASE f.type = FieldType.INT -> validateInt(f, v)
      [] f.type = FieldType.FLOAT -> validateFloat(f, v)
      [] f.type = FieldType.BOOL ->
            IF ~IsBool(v) THEN TypeMismatchFailure(f, "Expected different type") ELSE SuccessVoid
      [] f.type = FieldType.STRING -> validateString(f, v)
      [] f.type = FieldType.OBJECT ->
            IF ~IsJsonObject(v) \/ DOMAIN AsJsonObject(v) = {}
              THEN TypeMismatchFailure(f, "Expected different type") ELSE SuccessVoid
      [] OTHER -> SuccessVoid

\* the switch (f.type) and the trailing if (mismatch)
validateType(f, v) ==
    CASE f.type = FieldType.INT -> validateInt(f, v)
      [] f.type = FieldType.FLOAT -> validateFloat(f, v)
      [] f.type = FieldType.BOOL ->
            IF ~IsBool(v) THEN TypeMismatchFailure(f, "Expected different type") ELSE SuccessVoid
      [] f.type = FieldType.STRING -> validateString(f, v)
      [] f.type = FieldType.OBJECT ->
            IF ~IsJsonObject(v) THEN TypeMismatchFailure(f, "Expected different type") ELSE SuccessVoid
      [] OTHER -> SuccessVoid

\* validateField without "if (!f.validate) continue;"
validateField_ValidateFlagIgnored(f, o) ==
    IF f.required /\ ~containsKey(o, f.name)
      THEN FailureVoid(SerializationError.FIELD_MISSING, "Required field missing", f.name)
    ELSE IF ~containsKey(o, f.name) THEN SuccessVoid
    ELSE validateType(f, o[f.name])

\* validateField whose presence check tests !f.required: a required field
\* may be absent, an optional one may not
validateField_RequiredNegated(f, o) ==
    IF ~f.validate THEN SuccessVoid
    ELSE IF ~f.required /\ ~containsKey(o, f.name)
      THEN FailureVoid(SerializationError.FIELD_MISSING, "Required field missing", f.name)
    ELSE IF ~containsKey(o, f.name) THEN SuccessVoid
    ELSE validateType(f, o[f.name])

\* validateField without "if (!o.containsKey(f.name)) continue;": the null
\* variant of an absent member goes through the type switch
validateField_AbsentChecked(f, o) ==
    IF ~f.validate THEN SuccessVoid
    ELSE IF f.required /\ ~containsKey(o, f.name)
      THEN FailureVoid(SerializationError.FIELD_MISSING, "Required field missing", f.name)
    ELSE IF ~containsKey(o, f.name) THEN validateType(f, JNull)
    ELSE validateType(f, o[f.name])

\* one iteration of the loop of validateSchema: SuccessVoid stands for
\* "continue with the next field"
validateField(f, o) ==
    IF ~f.validate THEN SuccessVoid
    ELSE IF f.required /\ ~containsKey(o, f.name)
      THEN FailureVoid(SerializationError.FIELD_MISSING, "Required field missing", f.name)
    ELSE IF ~containsKey(o, f.name) THEN SuccessVoid
    ELSE validateType(f, o[f.name])

RECURSIVE validateFrom(_, _, _)
\* the loop for (i = 0; i < n; ++i) from index i on (1-based)
validateFrom(schema, o, i) ==
    IF i > Len(schema) THEN SuccessVoid
    ELSE LET r == validateField(schema[i], o) IN
         IF r.success THEN validateFrom(schema, o, i + 1) ELSE r

\* validateSchema that first rejects an object holding a key the schema
\* does not declare
validateSchema_UndeclaredRejected(R, o) ==
    IF \E key \in DOMAIN o : key \notin {R.fields[i].name : i \in DOMAIN R.fields}
      THEN FailureVoid(SerializationError.TYPE_MISMATCH, "Unknown field", "")
      ELSE validateFrom(getSchema(R), o, 1)

\* static SerializationResult<void> validateSchema(const JsonObject& o)
validateSchema(R, o) == validateFrom(getSchema(R), o, 1)

(***************************************************************************)
(* MemoryTracker.  size_t is 16 bits wide (AVR); sums wrap.                *)
(***************************************************************************)
SizeModulus == 65536

\* recordAllocation whose comparison with the peak is taken before the sum
recordAllocation_PeakBeforeSum(mt, size) ==
    [totalAllocated |-> (mt.totalAllocated + size) % SizeModulus,
     peakUsage |-> IF mt.totalAllocated > mt.peakUsage THEN mt.totalAllocated
                                                        ELSE mt.peakUsage]

recordAllocation(mt, size) ==
    LET t == (mt.totalAllocated + size) % SizeModulus IN
    [totalAllocated |-> t,
     peakUsage |-> IF t > mt.peakUsage THEN t ELSE mt.peakUsage]

\* recordDeallocation with > for >=
recordDeallocation_StrictGuard(mt, size) ==
    IF mt.totalAllocated > size
      THEN [mt EXCEPT !.totalAllocated = mt.totalAllocated - size]
      ELSE mt

\* recordDeallocation that also sets peakUsage to the new total
recordDeallocation_PeakFollows(mt, size) ==
    IF mt.totalAllocated >= size
      THEN [totalAllocated |-> mt.totalAllocated - size,
            peakUsage |-> mt.totalAllocated - size]
      ELSE mt

\* recordDeallocation that clamps to zero
recordDeallocation_Saturating(mt, size) ==
    IF mt.totalAllocated >= size
      THEN [mt EXCEPT !.totalAllocated = mt.totalAllocated - size]
      ELSE [mt EXCEPT !.totalAllocated = 0]

recordDeallocation(mt, size) ==
    IF mt.totalAllocated >= size
      THEN [mt EXCEPT !.totalAllocated = mt.totalAllocated - size]
      ELSE mt

(***************************************************************************)
(* Text and the document buffers.                                          *)
(*                                                                         *)
(* A text is held by its syntax: wf says whether it is well-formed JSON,   *)
(* err is the parser's verdict on a malformed one, root its value.  In a   *)
(* text a number is a numeral: its value in halves, and whether it is      *)
(* written with a fraction or exponent (dot).                              *)
(***************************************************************************)
TNum(h, dot) == [k |-> "num", h |-> h, dot |-> dot]

WellFormed(root) == [wf |-> TRUE, err |-> "Ok", root |-> root]
Malformed(err) == [wf |-> FALSE, err |-> err, root |-> JNull]

\* String(): the empty text
EmptyString == Malformed("EmptyInput")
\* the literal "{}"
EmptyObjectText == WellFormed(JObj(NoMembers))

\* DynamicJsonDocument doc(512), DynamicJsonDocument sub(256)
DocCapacity == 512
SubCapacity == 256
\* bytes of one member slot of a document's pool
SlotSize == 16
\* bytes of a string copied into a document's pool
StringSize(s) == Len(s) + 1

RECURSIVE PoolBytes(_), MembersBytes(_, _)
\* what a value takes in a pool that owns its keys and strings
PoolBytes(v) ==
    CASE v.k = "str" -> StringSize(v.s)
      [] v.k = "obj" -> MembersBytes(v.m, DOMAIN v.m)
      [] OTHER -> 0

\* the members of m named in keys: a slot, the key and the value each
MembersBytes(m, keys) ==
    IF keys = {} THEN 0
    ELSE LET key == CHOOSE x \in keys : TRUE IN
         SlotSize + StringSize(key) + PoolBytes(m[key]) + MembersBytes(m, keys \ {key})

RECURSIVE ParseValue(_)
\* the variant the parser builds for a textual value
ParseValue(tv) ==
    CASE tv.k = "num" ->
            IF tv.dot \/ tv.h % 2 # 0 THEN JFloat(tv.h) ELSE JInt(tv.h \div 2)
      [] tv.k = "obj" -> JObj([key \in DOMAIN tv.m |-> ParseValue(tv.m[key])])
      [] OTHER -> tv

\* deserializeJson(doc, text) into a document of the given capacity
deserializeJson(text, capacity) ==
    IF ~text.wf THEN [err |-> text.err, root |-> JNull]
    ELSE IF PoolBytes(text.root) > capacity THEN [err |-> "NoMemory", root |-> JNull]
    ELSE [err |-> "Ok", root |-> ParseValue(text.root)]

RECURSIVE RenderValue(_)
\* the textual value the writer prints for a variant: a float with no
\* fractional part is printed like an integer, the float that is not a
\* number is printed as null
RenderValue(v) ==
    CASE v.k = "int" -> TNum(2 * v.n, FALSE)
      [] v.k = "float" -> IF v.h = FloatNaN THEN JNull ELSE TNum(v.h, v.h % 2 # 0)
      [] v.k = "obj" -> JObj([key \in DOMAIN v.m |-> RenderValue(v.m[key])])
      [] OTHER -> v

\* serializeJson(doc, result): the text written
serializeJson(root) == WellFormed(RenderValue(root))

(***************************************************************************)
(* Native field values.  A record instance is a function from the field    *)
(* names to native values: an integer for the integral C++ types, halves   *)
(* for float/double, a BOOLEAN, a string, or the instance of a nested      *)
(* record.                                                                 *)
(***************************************************************************)
IntegralTypes == {"int", "long", "unsigned int", "unsigned long", "short"}
FloatTypes == {"float", "double"}

FieldNames(R) == {R.fields[i].name : i \in DOMAIN R.fields}
FieldNamed(R, n) == R.fields[CHOOSE i \in DOMAIN R.fields : R.fields[i].name = n]

\* the value an uninitialized primitive member happens to hold; u is what
\* the memory held before
Indeterminate(ctype, u) ==
    CASE ctype \in IntegralTypes -> u.i
      [] ctype \in FloatTypes -> u.h
      [] OTHER -> u.b

RECURSIVE DefaultInit(_, _)
\* "structName data;": Strings are empty, primitives are left uninitialized
DefaultInit(R, u) ==
    [n \in FieldNames(R) |->
        LET f == FieldNamed(R, n) IN
        CASE f.ctype = "String" -> ""
          [] HasSerialize(f.ctype) -> DefaultInit(f.rec, u)
          [] OTHER -> Indeterminate(f.ctype, u)]

\* "structName()": value-initialization zeroes the primitives
ValueInit(R) == DefaultInit(R, [i |-> 0, h |-> 0, b |-> FALSE])

\* obj[key] = value for a primitive: the variant stored
ToVariant(ctype, value) ==
    CASE ctype \in IntegralTypes -> JInt(value)
      [] ctype \in FloatTypes -> JFloat(value)
      [] ctype = "bool" -> JBool(value)
      [] OTHER -> JStr(value)

\* the number a string spells (one digit here), else 0
ParseNumeral(s) ==
    IF \E n \in 0..9 : ToString(n) = s
      THEN CHOOSE n \in 0..9 : ToString(n) = s
      ELSE 0

\* truncation of halves toward zero
TruncHalves(h) == IF h >= 0 THEN h \div 2 ELSE -((-h) \div 2)

\* v.as<int>(), v.as<long>()
AsInteger(v) ==
    CASE v.k = "int" -> v.n
      [] v.k = "float" -> TruncHalves(v.h)
      [] v.k = "bool" -> IF v.b THEN 1 ELSE 0
      [] v.k = "str" -> ParseNumeral(v.s)
      [] OTHER -> 0

\* v.as<float>() of any variant, in halves
AsFloatAny(v) ==
    CASE v.k \in {"int", "float"} -> AsFloat(v)
      [] v.k = "bool" -> IF v.b THEN 2 ELSE 0
      [] v.k = "str" -> 2 * ParseNumeral(v.s)
      [] OTHER -> 0

\* v.as<bool>()
AsBool(v) ==
    CASE v.k = "bool" -> v.b
      [] v.k = "int" -> v.n # 0
      [] v.k = "float" -> v.h # 0
      [] v.k = "null" -> FALSE
      [] OTHER -> TRUE

HalvesText(h) ==
    IF h % 2 = 0 THEN ToString(h \div 2)
    ELSE (IF h < 0 THEN "-" ELSE "") \o ToString(TruncHalves(IF h < 0 THEN -h ELSE h)) \o ".5"

RECURSIVE JsonText(_), MembersText(_, _)
\* the characters serializeJson writes for a variant
JsonText(v) ==
    CASE v.k = "int" -> ToString(v.n)
      [] v.k = "float" -> HalvesText(v.h)
      [] v.k = "bool" -> IF v.b THEN "true" ELSE "false"
      [] v.k = "str" -> "\"" \o v.s \o "\""
      [] v.k = "obj" -> "{" \o MembersText(v.m, DOMAIN v.m) \o "}"
      [] v.k = "arr" -> "[]"
      [] OTHER -> "null"

MembersText(m, keys) ==
    IF keys = {} THEN ""
    ELSE LET key == CHOOSE x \in keys : TRUE
             rest == keys \ {key} IN
         "\"" \o key \o "\":" \o JsonText(m[key])
            \o (IF rest = {} THEN "" ELSE "," \o MembersText(m, rest))

\* v.as<String>(): the string itself, else the JSON text of the value
AsString(v) == IF v.k = "str" THEN v.s ELSE JsonText(v)

\* obj[key].as<T>() for a primitive T
AsNative(ctype, v) ==
    CASE ctype \in IntegralTypes -> AsInteger(v)
      [] ctype \in FloatTypes -> AsFloatAny(v)
      [] ctype = "bool" -> AsBool(v)
      [] OTHER -> AsString(v)

(***************************************************************************)
(* Building a document: acc = [obj, used, mt] is the object built so far,  *)
(* the bytes of the pool in use, and the MemoryTracker.                    *)
(***************************************************************************)
Put(m, key, v) == [x \in DOMAIN m \cup {key} |-> IF x = key THEN v ELSE m[x]]

EmptyDoc(mt) == [obj |-> NoMembers, used |-> 0, mt |-> mt]

\* obj[key] = value for a primitive.  The key is a literal and is not
\* copied; with no room for the slot the member is not added, with no room
\* for the characters of a String the member is null
SetPrimitive(acc, key, v, cap) ==
    IF acc.used + SlotSize > cap THEN acc
    ELSE LET used1 == acc.used + SlotSize IN
         IF v.k = "str" /\ used1 + StringSize(v.s) > cap
           THEN [acc EXCEPT !.obj = Put(acc.obj, key, JNull), !.used = used1]
         ELSE [acc EXCEPT !.obj = Put(acc.obj, key, v), !.used = used1 + PoolBytes(v)]

RECURSIVE CopyMembers(_, _, _, _, _)
\* the member-by-member copy of the object m (its keys in the given order)
\* into a pool with `used` bytes in use; it stops at the first member that
\* does not fit.  Gives [m, used]
CopyMembers(m, order, i, out, cap) ==
    IF i > Len(order) THEN out
    ELSE LET key == order[i] IN
         IF key \notin DOMAIN m THEN CopyMembers(m, order, i + 1, out, cap)
         ELSE LET used1 == out.used + StringSize(key) + SlotSize
                  v == m[key] IN
              IF used1 > cap THEN out
              ELSE IF used1 + PoolBytes(v) > cap
                THEN [m |-> Put(out.m, key, JNull), used |-> used1]
              ELSE CopyMembers(m, order, i + 1,
                        [m |-> Put(out.m, key, v), used |-> used1 + PoolBytes(v)], cap)

\* obj[key] = sub.as<JsonObject>()
SetObject(acc, key, m, order, cap) ==
    IF acc.used + SlotSize > cap THEN acc
    ELSE LET out == CopyMembers(m, order, 1, [m |-> NoMembers, used |-> acc.used + SlotSize], cap)
         IN [acc EXCEPT !.obj = Put(acc.obj, key, JObj(out.m)), !.used = out.used]

FieldOrder(R) == [i \in DOMAIN R.fields |-> R.fields[i].name]

(***************************************************************************)
(* V2.4: serializeField, validateSelf, serializeWithResult, serialize.     *)
(* env.renderFails holds the nesting depths at which serializeJson writes  *)
(* nothing (returns 0).  Each operator gives its result and the tracker.   *)
(***************************************************************************)
RECURSIVE serializeWithResult(_, _, _, _, _)

\* String serialize() const
serialize(R, x, mt, env, d) ==
    LET r == serializeWithResult(R, x, mt, env, d) IN
    [data |-> IF r.res.success THEN r.res.data ELSE EmptyObjectText, mt |-> r.mt]

\* serializeField that attaches the nested object when the parse failed
\* (if (err) for if (!err))
serializeField_ParseResultInverted(f, value, acc, cap, env, d) ==
    IF ~HasSerialize(f.ctype)
      THEN SetPrimitive(acc, f.name, ToVariant(f.ctype, value), cap)
    ELSE LET r == serialize(f.rec, value, acc.mt, env, d + 1)
             sub == deserializeJson(r.data, SubCapacity)
             acc1 == [acc EXCEPT !.mt = r.mt] IN
         IF sub.err # "Ok"
           THEN SetObject(acc1, f.name, AsJsonObject(sub.root), FieldOrder(f.rec), cap)
           ELSE acc1

\* JsonStruct::serializeField, both overloads
serializeField(f, value, acc, cap, env, d) ==
    IF ~HasSerialize(f.ctype)
      THEN SetPrimitive(acc, f.name, ToVariant(f.ctype, value), cap)
    ELSE LET r == serialize(f.rec, value, acc.mt, env, d + 1)
             sub == deserializeJson(r.data, SubCapacity)
             acc1 == [acc EXCEPT !.mt = r.mt] IN
         IF sub.err = "Ok"
           THEN SetObject(acc1, f.name, AsJsonObject(sub.root), FieldOrder(f.rec), cap)
           ELSE acc1

RECURSIVE serializeFields(_, _, _, _, _, _, _)
\* FIELD_LIST(SERIALIZE_FIELD) from field i on
serializeFields(R, x, i, acc, cap, env, d) ==
    IF i > Len(R.fields) THEN acc
    ELSE serializeFields(R, x, i + 1,
            serializeField(R.fields[i], x[R.fields[i].name], acc, cap, env, d), cap, env, d)

\* SerializationResult<void> validateSelf() const
validateSelf(R, x, mt, env, d) ==
    LET acc == serializeFields(R, x, 1, EmptyDoc(mt), DocCapacity, env, d) IN
    [res |-> validateSchema(R, acc.obj), mt |-> acc.mt]

\* SerializationResult<String> serializeWithResult() const
serializeWithResult(R, x, mt, env, d) ==
    LET validation == validateSelf(R, x, mt, env, d) IN
    IF ~validation.res.success
      THEN [res |-> Failure(validation.res.error.code, validation.res.error.message,
                            validation.res.error.fieldPath, EmptyString),
            mt |-> validation.mt]
    ELSE LET mt1 == recordAllocation(validation.mt, DocCapacity)
             acc == serializeFields(R, x, 1, EmptyDoc(mt1), DocCapacity, env, d) IN
         IF d \in env.renderFails
           THEN [res |-> Failure(SerializationError.INVALID_JSON, "Failed to serialize", "",
                                 EmptyString),
                 mt |-> recordDeallocation(acc.mt, DocCapacity)]
           ELSE [res |-> Success(serializeJson(JObj(acc.obj))),
                 mt |-> recordDeallocation(acc.mt, DocCapacity)]

(***************************************************************************)
(* V2.4: deserializeField, deserializeWithResult, deserialize.             *)
(* env.u is what uninitialized members hold.                               *)
(***************************************************************************)
RECURSIVE deserializeWithResult(_, _, _, _)

\* deserialize that returns r.data whether or not r.success
deserialize_DataAlwaysReturned(R, text, mt, env) ==
    LET r == deserializeWithResult(R, text, mt, env) IN
    [data |-> r.res.data, mt |-> r.mt]

\* static structName deserialize(const String& jsonStr)
deserialize(R, text, mt, env) ==
    LET r == deserializeWithResult(R, text, mt, env) IN
    [data |-> IF r.res.success THEN r.res.data ELSE ValueInit(R), mt |-> r.mt]

RECURSIVE deserializeFields(_, _, _, _, _)

\* deserializeField that reads the members of a nested object into the
\* nested record without validating the object
deserializeField_NestedUnvalidated(f, o, acc, env) ==
    IF ~HasSerialize(f.ctype)
      THEN IF containsKey(o, f.name)
             THEN [acc EXCEPT !.data[f.name] = AsNative(f.ctype, o[f.name])]
             ELSE acc
    ELSE IF containsKey(o, f.name) /\ IsJsonObject(o[f.name])
      THEN LET r == deserializeFields(f.rec, AsJsonObject(o[f.name]), 1,
                                      [data |-> ValueInit(f.rec), mt |-> acc.mt], env) IN
           [data |-> [acc.data EXCEPT ![f.name] = r.data], mt |-> r.mt]
    ELSE acc

\* JsonStruct::deserializeField, both overloads; acc = [data, mt]
deserializeField(f, o, acc, env) ==
    IF ~HasSerialize(f.ctype)
      THEN IF containsKey(o, f.name)
             THEN [acc EXCEPT !.data[f.name] = AsNative(f.ctype, o[f.name])]
             ELSE acc
    ELSE IF containsKey(o, f.name) /\ IsJsonObject(o[f.name])
      THEN LET nestedJson == serializeJson(o[f.name])
               r == deserialize(f.rec, nestedJson, acc.mt, env) IN
           [data |-> [acc.data EXCEPT ![f.name] = r.data], mt |-> r.mt]
    ELSE acc

\* FIELD_LIST(DESERIALIZE_FIELD) from field i on
deserializeFields(R, o, i, acc, env) ==
    IF i > Len(R.fields) THEN acc
    ELSE deserializeFields(R, o, i + 1, deserializeField(R.fields[i], o, acc, env), env)

\* deserializeWithResult that deserializes a nested record with
\* deserializeWithResult and returns its failure
deserializeWithResult_NestedFailureReturned(R, text, mt, env) ==
    LET mt1 == recordAllocation(mt, DocCapacity)
        parsed == deserializeJson(text, DocCapacity) IN
    IF parsed.err # "Ok"
      THEN [res |-> Failure(SerializationError.INVALID_JSON, "Parse error: " \o parsed.err, "",
                            DefaultInit(R, env.u)),
            mt |-> recordDeallocation(mt1, DocCapacity)]
    ELSE LET o == AsJsonObject(parsed.root)
             val == validateSchema(R, o)
             nested == {i \in DOMAIN R.fields :
                          /\ HasSerialize(R.fields[i].ctype)
                          /\ containsKey(o, R.fields[i].name)
                          /\ IsJsonObject(o[R.fields[i].name])}
             failed == {i \in nested :
                          ~deserializeWithResult(R.fields[i].rec,
                               serializeJson(o[R.fields[i].name]), mt1, env).res.success} IN
         IF ~val.success
           THEN [res |-> Failure(val.error.code, val.error.message, val.error.fieldPath,
                                 DefaultInit(R, env.u)),
                 mt |-> recordDeallocation(mt1, DocCapacity)]
         ELSE IF failed # {}
           THEN LET i == CHOOSE i \in failed : \A j \in failed : i <= j
                    n == deserializeWithResult(R.fields[i].rec,
                             serializeJson(o[R.fields[i].name]), mt1, env).res IN
                [res |-> Failure(n.error.code, n.error.message, n.error.fieldPath,
                                 DefaultInit(R, env.u)),
                 mt |-> recordDeallocation(mt1, DocCapacity)]
         ELSE LET acc == deserializeFields(R, o, 1,
                              [data |-> DefaultInit(R, env.u), mt |-> mt1], env) IN
              [res |-> Success(acc.data), mt |-> recordDeallocation(acc.mt, DocCapacity)]

\* deserializeWithResult that reports a validation failure under its own
\* code and message
deserializeWithResult_ValidationRewrapped(R, text, mt, env) ==
    LET mt1 == recordAllocation(mt, DocCapacity)
        parsed == deserializeJson(text, DocCapacity) IN
    IF parsed.err # "Ok"
      THEN [res |-> Failure(SerializationError.INVALID_JSON, "Parse error: " \o parsed.err, "",
                            DefaultInit(R, env.u)),
            mt |-> recordDeallocation(mt1, DocCapacity)]
    ELSE LET o == AsJsonObject(parsed.root)
             val == validateSchema(R, o) IN
         IF ~val.success
           THEN [res |-> Failure(SerializationError.VALIDATION_FAILED,
                                 "Validation failed: " \o val.error.message,
                                 val.error.fieldPath, DefaultInit(R, env.u)),
                 mt |-> recordDeallocation(mt1, DocCapacity)]
         ELSE LET acc == deserializeFields(R, o, 1,
                              [data |-> DefaultInit(R, env.u), mt |-> mt1], env) IN
              [res |-> Success(acc.data), mt |-> recordDeallocation(acc.mt, DocCapacity)]

\* deserializeWithResult without "if (err)": a rejected text is treated as
\* the null document
deserializeWithResult_ParseErrorIgnored(R, text, mt, env) ==
    LET mt1 == recordAllocation(mt, DocCapacity)
        parsed == deserializeJson(text, DocCapacity)
        o == AsJsonObject(parsed.root)
        val == validateSchema(R, o) IN
    IF ~val.success
      THEN [res |-> Failure(val.error.code, val.error.message, val.error.fieldPath,
                            DefaultInit(R, env.u)),
            mt |-> recordDeallocation(mt1, DocCapacity)]
    ELSE LET acc == deserializeFields(R, o, 1,
                         [data |-> DefaultInit(R, env.u), mt |-> mt1], env) IN
         [res |-> Success(acc.data), mt |-> recordDeallocation(acc.mt, DocCapacity)]

\* deserializeWithResult that rejects a root that is not an object
deserializeWithResult_RootKindChecked(R, text, mt, env) ==
    LET mt1 == recordAllocation(mt, DocCapacity)
        parsed == deserializeJson(text, DocCapacity) IN
    IF parsed.err # "Ok"
      THEN [res |-> Failure(SerializationError.INVALID_JSON, "Parse error: " \o parsed.err, "",
                            DefaultInit(R, env.u)),
            mt |-> recordDeallocation(mt1, DocCapacity)]
    ELSE IF ~IsJsonObject(parsed.root)
      THEN [res |-> Failure(SerializationError.TYPE_MISMATCH, "Expected different type", "",
                            DefaultInit(R, env.u)),
            mt |-> recordDeallocation(mt1, DocCapacity)]
    ELSE LET o == AsJsonObject(parsed.root)
             val == validateSchema(R, o) IN
         IF ~val.success
           THEN [res |-> Failure(val.error.code, val.error.message, val.error.fieldPath,
                                 DefaultInit(R, env.u)),
                 mt |-> recordDeallocation(mt1, DocCapacity)]
         ELSE LET acc == deserializeFields(R, o, 1,
                              [data |-> DefaultInit(R, env.u), mt |-> mt1], env) IN
              [res |-> Success(acc.data), mt |-> recordDeallocation(acc.mt, DocCapacity)]

\* deserializeWithResult that gives up when the tracker accounts for more
\* than its own document
deserializeWithResult_BudgetEnforced(R, text, mt, env) ==
    LET mt1 == recordAllocation(mt, DocCapacity)
        parsed == deserializeJson(text, DocCapacity) IN
    IF mt1.totalAllocated > DocCapacity
      THEN [res |-> Failure(SerializationError.MEMORY_ALLOCATION_FAILED, "Out of memory", "",
                            DefaultInit(R, env.u)),
            mt |-> recordDeallocation(mt1, DocCapacity)]
    ELSE IF parsed.err # "Ok"
      THEN [res |-> Failure(SerializationError.INVALID_JSON, "Parse error: " \o parsed.err, "",
                            DefaultInit(R, env.u)),
            mt |-> recordDeallocation(mt1, DocCapacity)]
    ELSE LET o == AsJsonObject(parsed.root)
             val == validateSchema(R, o) IN
         IF ~val.success
           THEN [res |-> Failure(val.error.code, val.error.message, val.error.fieldPath,
                                 DefaultInit(R, env.u)),
                 mt |-> recordDeallocation(mt1, DocCapacity)]
         ELSE LET acc == deserializeFields(R, o, 1,
                              [data |-> DefaultInit(R, env.u), mt |-> mt1], env) IN
              [res |-> Success(acc.data), mt |-> recordDeallocation(acc.mt, DocCapacity)]

\* static SerializationResult<structName> deserializeWithResult(const String&)
deserializeWithResult(R, text, mt, env) ==
    LET mt1 == recordAllocation(mt, DocCapacity)
        parsed == deserializeJson(text, DocCapacity) IN
    IF parsed.err # "Ok"
      THEN [res |-> Failure(SerializationError.INVALID_JSON, "Parse error: " \o parsed.err, "",
                            DefaultInit(R, env.u)),
            mt |-> recordDeallocation(mt1, DocCapacity)]
    ELSE LET o == AsJsonObject(parsed.root)
             val == validateSchema(R, o) IN
         IF ~val.success
           THEN [res |-> Failure(val.error.code, val.error.message, val.error.fieldPath,
                                 DefaultInit(R, env.u)),
                 mt |-> recordDeallocation(mt1, DocCapacity)]
         ELSE LET acc == deserializeFields(R, o, 1,
                              [data |-> DefaultInit(R, env.u), mt |-> mt1], env) IN
              [res |-> Success(acc.data), mt |-> recordDeallocation(acc.mt, DocCapacity)]

(***************************************************************************)
(* V2 (src/src/structa.h): record types without field metadata, and        *)
(* record types with a validator list.                                     *)
(***************************************************************************)
\* DECLARE(type, name)
DECLARE(ctype, name, rec) == [name |-> name, ctype |-> ctype, rec |-> rec]

\* DEFINE_STRUCTA(structName, FIELD_LIST) of V2
DEFINE_STRUCTA_V2(structName, fieldList) ==
    [name |-> structName, lib |-> "v2", fields |-> fieldList, validators |-> <<>>]

\* DEFINE_STRUCTA_WITH_VALIDATION(structName, FIELD_LIST, VALIDATOR_LIST)
DEFINE_STRUCTA_WITH_VALIDATION(structName, fieldList, validatorList) ==
    [name |-> structName, lib |-> "v2val", fields |-> fieldList, validators |-> validatorList]

\* the validator objects; bounds of a float validator are in halves
makeRangeValidatorInt(min, max) ==
    [kind |-> "RangeInt", hasMin |-> TRUE, hasMax |-> TRUE, min |-> min, max |-> max]
makeRangeValidatorFloat(min, max) ==
    [kind |-> "RangeFloat", hasMin |-> TRUE, hasMax |-> TRUE, min |-> min, max |-> max]
makeStringLengthValidator(min, max) ==
    [kind |-> "StringLength", hasMin |-> TRUE, hasMax |-> TRUE, min |-> min, max |-> max]
makeStringMinLengthValidator(min) ==
    [kind |-> "StringLength", hasMin |-> TRUE, hasMax |-> FALSE, min |-> min, max |-> 0]
makeStringMaxLengthValidator(max) ==
    [kind |-> "StringLength", hasMin |-> FALSE, hasMax |-> TRUE, min |-> 0, max |-> max]
makeRequiredValidator ==
    [kind |-> "Required", hasMin |-> FALSE, hasMax |-> FALSE, min |-> 0, max |-> 0]

\* DECLARE_VALIDATOR(fieldName, validatorInstance)
DECLARE_VALIDATOR(fieldName, validatorInstance) ==
    [field |-> fieldName, validator |-> validatorInstance]

\* String(float): two decimals
FloatString(h) ==
    (IF h < 0 THEN "-" ELSE "") \o ToString(TruncHalves(IF h < 0 THEN -h ELSE h))
        \o (IF h % 2 = 0 THEN ".00" ELSE ".50")

\* validator.validate(fieldName, value, errorMsg): [ok, errorMsg]
ValidatorValidate(v, value) ==
    CASE v.kind = "RangeInt" ->
            IF v.hasMin /\ value < v.min
              THEN [ok |-> FALSE, errorMsg |-> "Value " \o ToString(value)
                        \o " is below minimum " \o ToString(v.min)]
            ELSE IF v.hasMax /\ value > v.max
              THEN [ok |-> FALSE, errorMsg |-> "Value " \o ToString(value)
                        \o " exceeds maximum " \o ToString(v.max)]
            ELSE [ok |-> TRUE, errorMsg |-> ""]
      [] v.kind = "RangeFloat" ->
            IF v.hasMin /\ value < v.min
              THEN [ok |-> FALSE, errorMsg |-> "Value " \o FloatString(value)
                        \o " is below minimum " \o FloatString(v.min)]
            ELSE IF v.hasMax /\ value > v.max
              THEN [ok |-> FALSE, errorMsg |-> "Value " \o FloatString(value)
                        \o " exceeds maximum " \o FloatString(v.max)]
            ELSE [ok |-> TRUE, errorMsg |-> ""]
      [] v.kind = "StringLength" ->
            IF v.hasMin /\ Len(value) < v.min
              THEN [ok |-> FALSE, errorMsg |-> "String length " \o ToString(Len(value))
                        \o " is below minimum " \o ToString(v.min)]
            ELSE IF v.hasMax /\ Len(value) > v.max
              THEN [ok |-> FALSE, errorMsg |-> "String length " \o ToString(Len(value))
                        \o " exceeds maximum " \o ToString(v.max)]
            ELSE [ok |-> TRUE, errorMsg |-> ""]
      [] OTHER ->
            IF Len(value) = 0
              THEN [ok |-> FALSE, errorMsg |-> "Field is required but empty"]
              ELSE [ok |-> TRUE, errorMsg |-> ""]

RECURSIVE validateFromV2(_, _, _)
\* VALIDATOR_LIST(VALIDATE_FIELD) from validator i on
validateFromV2(R, x, i) ==
    IF i > Len(R.validators) THEN SuccessVoid
    ELSE LET d == R.validators[i]
             r == ValidatorValidate(d.validator, x[d.field]) IN
         IF ~r.ok
           THEN FailureVoid(SerializationError.VALIDATION_FAILED, r.errorMsg, d.field)
           ELSE validateFromV2(R, x, i + 1)

\* validate() that stops after the first validator of the list
validate_FirstValidatorOnly(R, x) ==
    IF Len(R.validators) = 0 THEN SuccessVoid
    ELSE LET d == R.validators[1]
             r == ValidatorValidate(d.validator, x[d.field]) IN
         IF ~r.ok
           THEN FailureVoid(SerializationError.VALIDATION_FAILED, r.errorMsg, d.field)
           ELSE SuccessVoid

\* SerializationResult<bool> validate() const
validate(R, x) == validateFromV2(R, x, 1)

RECURSIVE serializeWithResultV2(_, _, _, _, _)

\* String serialize() const, V2
serializeV2(R, x, mt, env, d) ==
    LET r == serializeWithResultV2(R, x, mt, env, d) IN
    [data |-> IF r.res.success THEN r.res.data ELSE EmptyObjectText, mt |-> r.mt]

\* JsonStruct::serializeField of V2: the outcome of parsing the nested text
\* is not looked at; a failed parse leaves a null member
serializeFieldV2(f, value, acc, cap, env, d) ==
    IF ~HasSerialize(f.ctype)
      THEN SetPrimitive(acc, f.name, ToVariant(f.ctype, value), cap)
    ELSE LET r == serializeV2(f.rec, value, acc.mt, env, d + 1)
             sub == deserializeJson(r.data, SubCapacity)
             acc1 == [acc EXCEPT !.mt = r.mt] IN
         IF sub.err = "Ok" /\ IsJsonObject(sub.root)
           THEN SetObject(acc1, f.name, AsJsonObject(sub.root), FieldOrder(f.rec), cap)
           ELSE SetPrimitive(acc1, f.name, JNull, cap)

RECURSIVE serializeFieldsV2(_, _, _, _, _, _, _)
serializeFieldsV2(R, x, i, acc, cap, env, d) ==
    IF i > Len(R.fields) THEN acc
    ELSE serializeFieldsV2(R, x, i + 1,
            serializeFieldV2(R.fields[i], x[R.fields[i].name], acc, cap, env, d), cap, env, d)

\* serializeWithResult of DEFINE_STRUCTA and of DEFINE_STRUCTA_WITH_VALIDATION
serializeWithResultV2(R, x, mt, env, d) ==
    LET mt1 == recordAllocation(mt, DocCapacity)
        acc == serializeFieldsV2(R, x, 1, EmptyDoc(mt1), DocCapacity, env, d) IN
    IF d \in env.renderFails
      THEN [res |-> Failure(SerializationError.INVALID_JSON, "Failed to serialize", "",
                            EmptyString),
            mt |-> recordDeallocation(acc.mt, DocCapacity)]
      ELSE [res |-> Success(serializeJson(JObj(acc.obj))),
            mt |-> recordDeallocation(acc.mt, DocCapacity)]

RECURSIVE populateV2(_, _, _, _, _)
\* FIELD_LIST(DESERIALIZE_FIELD) that keeps a nested record only when the
\* nested record's validators accept it
populateV2_NestedValidated(R, o, i, data, env) ==
    IF i > Len(R.fields) THEN data
    ELSE LET f == R.fields[i]
             nested == populateV2(f.rec, AsJsonObject(o[f.name]), 1,
                                  DefaultInit(f.rec, env.u), env)
             next ==
                IF ~HasSerialize(f.ctype)
                  THEN IF containsKey(o, f.name)
                         THEN [data EXCEPT ![f.name] = AsNative(f.ctype, o[f.name])]
                         ELSE data
                ELSE IF containsKey(o, f.name) /\ IsJsonObject(o[f.name])
                          /\ validate(f.rec, nested).success
                  THEN [data EXCEPT ![f.name] = nested]
                ELSE data
         IN populateV2(R, o, i + 1, next, env)

\* FIELD_LIST(DESERIALIZE_FIELD) of V2 from field i on.  A nested record is
\* read by deserialize(const JsonObject&), which runs no validator and
\* touches no counter
populateV2(R, o, i, data, env) ==
    IF i > Len(R.fields) THEN data
    ELSE LET f == R.fields[i]
             next ==
                IF ~HasSerialize(f.ctype)
                  THEN IF containsKey(o, f.name)
                         THEN [data EXCEPT ![f.name] = AsNative(f.ctype, o[f.name])]
                         ELSE data
                ELSE IF containsKey(o, f.name) /\ IsJsonObject(o[f.name])
                  THEN [data EXCEPT ![f.name] =
                            populateV2(f.rec, AsJsonObject(o[f.name]), 1,
                                       DefaultInit(f.rec, env.u), env)]
                ELSE data
         IN populateV2(R, o, i + 1, next, env)

\* deserializeWithResult(const String&) of DEFINE_STRUCTA, and
\* deserializeWithResult(const String&, bool validateData) of
\* DEFINE_STRUCTA_WITH_VALIDATION
deserializeWithResultV2(R, text, validateData, mt, env) ==
    LET mt1 == recordAllocation(mt, DocCapacity)
        parsed == deserializeJson(text, DocCapacity) IN
    IF parsed.err # "Ok"
      THEN [res |-> Failure(SerializationError.INVALID_JSON, "Parse error: " \o parsed.err, "",
                            DefaultInit(R, env.u)),
            mt |-> recordDeallocation(mt1, DocCapacity)]
    ELSE LET data == populateV2(R, AsJsonObject(parsed.root), 1, DefaultInit(R, env.u), env)
             mt2 == recordDeallocation(mt1, DocCapacity)
             validationResult == validate(R, data) IN
         IF R.lib = "v2val" /\ validateData /\ ~validationResult.success
           THEN [res |-> Failure(validationResult.error.code, validationResult.error.message,
                                 validationResult.error.fieldPath, DefaultInit(R, env.u)),
                 mt |-> mt2]
           ELSE [res |-> Success(data), mt |-> mt2]

\* "structName()" of V2: DEFINE_STRUCTA_WITH_VALIDATION declares
\* "structName() {}", which leaves the primitives uninitialized
ValueInitV2(R, u) == IF R.lib = "v2val" THEN DefaultInit(R, u) ELSE ValueInit(R)

\* deserialize(const String&) of DEFINE_STRUCTA, and
\* deserialize(const String&, bool validateData = false) of
\* DEFINE_STRUCTA_WITH_VALIDATION
deserializeV2(R, text, validateData, mt, env) ==
    LET result == deserializeWithResultV2(R, text, validateData, mt, env) IN
    [data |-> IF result.res.success THEN result.res.data ELSE ValueInitV2(R, env.u),
     mt |-> result.mt]

(***************************************************************************)
(* The record types.  Address and User are the example's; the others       *)
(* combine, one and two at a time, field declarations that cover every     *)
(* FieldType and every metadata constructor.                               *)
(***************************************************************************)
roles == <<"admin", "user", "guest">>

Address ==
    DEFINE_STRUCTA("Address",
        << SCHEMA_ENTRY("String", "city", META_NONE, NoRec),
           SCHEMA_ENTRY("int", "zip", META_NONE, NoRec) >>)

User ==
    DEFINE_STRUCTA("User",
        << SCHEMA_ENTRY("String", "username", META_STRLEN(3, 15), NoRec),
           SCHEMA_ENTRY("String", "role", META_ENUM(roles), NoRec),
           SCHEMA_ENTRY("int", "age", META_RANGE(Whole(18), Whole(100)), NoRec),
           SCHEMA_ENTRY("String", "note", META_OPTIONAL, NoRec),
           SCHEMA_ENTRY("struct", "address", META_OPTIONAL, Address) >>)

\* a nested record with validated fields of its own
Item ==
    DEFINE_STRUCTA("Item",
        << SCHEMA_ENTRY("String", "sku", META_STRLEN(2, 5), NoRec),
           SCHEMA_ENTRY("int", "qty", META_RANGE(Whole(1), Whole(3)), NoRec) >>)

FieldPool ==
    << User.fields[1], User.fields[4], User.fields[5],
       SCHEMA_ENTRY("int", "level", META_RANGE(Halves(1), Halves(5)), NoRec),
       SCHEMA_ENTRY("int", "offset", META_RANGE(Halves(-5), Halves(-1)), NoRec),
       SCHEMA_ENTRY("float", "temp", META_RANGE(Halves(-3), Halves(5)), NoRec),
       SCHEMA_ENTRY("bool", "online", FieldMeta, NoRec),
       SCHEMA_ENTRY("short", "code", FieldMeta, NoRec),
       SCHEMA_ENTRY("String", "tag", META_OPTIONAL_UNVALIDATED, NoRec),
       SCHEMA_ENTRY("struct", "item", FieldMeta, Item) >>

OneFieldTypes ==
    {DEFINE_STRUCTA("One", <<FieldPool[i]>>) : i \in DOMAIN FieldPool}

TwoFieldTypes ==
    {DEFINE_STRUCTA("Two", <<FieldPool[i], FieldPool[j]>>) :
        <<i, j>> \in {p \in (DOMAIN FieldPool) \X (DOMAIN FieldPool) : p[1] < p[2]}}

\* the example of V2 (examples/person/dataModel.h)
person ==
    DEFINE_STRUCTA_V2("person",
        << DECLARE("String", "id", NoRec), DECLARE("String", "name", NoRec),
           DECLARE("int", "age", NoRec), DECLARE("float", "weight", NoRec) >>)

\* a V2 record nesting another
Pet ==
    DEFINE_STRUCTA_V2("Pet",
        << DECLARE("String", "name", NoRec), DECLARE("struct", "owner", person) >>)

\* a V2 record with validators
Member ==
    DEFINE_STRUCTA_WITH_VALIDATION("Member",
        << DECLARE("String", "name", NoRec), DECLARE("int", "age", NoRec),
           DECLARE("float", "weight", NoRec) >>,
        << DECLARE_VALIDATOR("name", makeStringLengthValidator(3, 15)),
           DECLARE_VALIDATOR("age", makeRangeValidatorInt(18, 100)),
           DECLARE_VALIDATOR("weight", makeRangeValidatorFloat(-3, 5)) >>)

\* a record whose nested record is not validated
Crate ==
    DEFINE_STRUCTA("Crate", << SCHEMA_ENTRY("struct", "item", META_NONE, Item) >>)

TypesV24 == {Address, User, Item, Crate} \cup OneFieldTypes \cup TwoFieldTypes
\* a V2 record with validators nesting another
Club ==
    DEFINE_STRUCTA_WITH_VALIDATION("Club",
        << DECLARE("String", "name", NoRec), DECLARE("struct", "lead", Member) >>,
        << DECLARE_VALIDATOR("name", makeStringMinLengthValidator(3)) >>)

TypesV2 == {person, Pet, Member, Club}
Types == TypesV24 \cup TypesV2

(***************************************************************************)
(* The inputs: for each field a few values of the right and of the wrong   *)
(* kind, at and around its bounds.                                         *)
(***************************************************************************)
X10 == "xxxxxxxxxx"
X100 == X10 \o X10 \o X10 \o X10 \o X10 \o X10 \o X10 \o X10 \o X10 \o X10
\* fits a 512-byte document, not a 256-byte one
Str300 == X100 \o X100 \o X100
\* fits no document
Str600 == Str300 \o Str300

TInt(n) == TNum(2 * n, FALSE)
TObj(m) == JObj(m)

\* textual values tried for a field
TextCands(f) ==
    CASE f.name = "username" -> {JStr("ab"), JStr("bob"), TInt(7)}
      [] f.name = "role" -> {JStr("guest"), JStr("root"), JStr("Guest")}
      [] f.name = "age" -> {TInt(17), TInt(18), TNum(36, TRUE)}
      [] f.name = "note" -> {JStr("ab"), TInt(7), JStr(Str600)}
      [] f.name = "address" ->
            {TObj(NoMembers), TObj([city |-> JStr("ab"), zip |-> TInt(7)]),
             TObj([city |-> TInt(7)]), JStr("ab")}
      [] f.name = "level" -> {TInt(0), TInt(1), TInt(2), TInt(3)}
      [] f.name = "offset" -> {TInt(-3), TInt(-2), TInt(-1), TInt(0)}
      [] f.name = "temp" ->
            {TNum(-4, FALSE), TNum(-3, TRUE), TNum(5, TRUE), TNum(6, FALSE), TInt(1), JStr("ab")}
      [] f.name = "online" -> {JBool(TRUE), TInt(1), JNull}
      [] f.name = "code" -> {TInt(7), JStr("7"), JStr("ab")}
      [] f.name = "tag" -> {JStr("ab"), TInt(7), TObj([a |-> JBool(FALSE)]), JStr(Str600)}
      [] f.name = "item" ->
            {TObj([sku |-> JStr("ab"), qty |-> TInt(1)]), TObj([sku |-> JStr("ab")]),
             TObj([sku |-> JStr("ab"), qty |-> TInt(9)]), TObj(NoMembers), TInt(7)}
      [] f.name = "city" -> {JStr("ab"), TInt(7)}
      [] f.name = "zip" -> {TInt(7), JStr("7"), TNum(5, TRUE)}
      [] f.name = "sku" -> {JStr("ab"), JStr("a"), TInt(7)}
      [] f.name = "qty" -> {TInt(1), TInt(9), JStr("ab")}
      [] f.name = "id" -> {JStr("ab")}
      [] f.name = "name" -> {JStr("ab"), JStr("bob"), TInt(7)}
      [] f.name = "weight" -> {TNum(-4, FALSE), TNum(5, TRUE), TNum(6, FALSE)}
      [] f.name = "owner" ->
            {TObj([id |-> JStr("ab"), name |-> JStr("bob"), age |-> TInt(18),
                   weight |-> TNum(5, TRUE)]),
             TObj([name |-> JStr("bob")]), TInt(7)}
      [] f.name = "lead" ->
            {TObj([name |-> JStr("bob"), age |-> TInt(18), weight |-> TNum(5, TRUE)]),
             TObj([name |-> JStr("ab"), age |-> TInt(17)]), TInt(7)}
      [] OTHER -> {JNull}

RECURSIVE ObjectsOver(_, _)
\* the objects that hold, for each of the fields from i on, nothing or one of
\* the values tried for it
ObjectsOver(fields, i) ==
    IF i > Len(fields) THEN {NoMembers}
    ELSE LET rest == ObjectsOver(fields, i + 1) IN
         rest \cup {Put(m, fields[i].name, c) : m \in rest, c \in TextCands(fields[i])}

\* values tried for a key that no schema declares
UndeclaredKey == "extra"
UndeclaredCands == {TInt(7), JStr(Str600)}

\* the objects tried for R with a member under the undeclared key
ObjectsWithUndeclared(R) ==
    IF Len(R.fields) = 1 \/ R.name \in {"Address", "Item"}
      THEN {Put(m, UndeclaredKey, c) : m \in ObjectsOver(R.fields, 1), c \in UndeclaredCands}
      ELSE {}

\* the texts handed to deserialize: objects, other roots, malformed texts
Texts(R) ==
    {WellFormed(TObj(m)) : m \in ObjectsOver(R.fields, 1) \cup ObjectsWithUndeclared(R)}
        \cup {WellFormed(JArr), WellFormed(TInt(7)), WellFormed(JStr("ab")),
              WellFormed(JBool(TRUE)), WellFormed(JNull),
              Malformed("InvalidInput"), EmptyString}

\* native values tried for a field
NativeCands(f) ==
    CASE f.name = "username" -> {"ab", "bob", Str600}
      [] f.name = "role" -> {"guest", "root"}
      [] f.name = "age" -> {17, 18, 100, 101}
      [] f.name = "note" -> {"", "ab", Str600}
      [] f.name = "address" ->
            {[city |-> "ab", zip |-> 7], [city |-> Str300, zip |-> 7], [city |-> "", zip |-> 0]}
      [] f.name = "level" -> {0, 1, 2, 3}
      [] f.name = "offset" -> {-3, -1, 0}
      [] f.name = "temp" -> {-4, -3, 2, 5, 6, FloatNaN}
      [] f.name = "online" -> {TRUE, FALSE}
      [] f.name = "code" -> {7}
      [] f.name = "tag" -> {"", "ab"}
      [] f.name = "item" ->
            {[sku |-> "ab", qty |-> 1], [sku |-> "", qty |-> 1], [sku |-> "ab", qty |-> 9]}
      [] f.name = "city" -> {"ab", Str300}
      [] f.name = "zip" -> {7}
      [] f.name = "sku" -> {"ab", "a"}
      [] f.name = "qty" -> {1, 9}
      [] f.name = "id" -> {"ab"}
      [] f.name = "name" -> {"ab", "bob", Str600}
      [] f.name = "weight" -> {-4, 5, 6}
      [] f.name = "owner" ->
            {[id |-> "ab", name |-> "bob", age |-> 18, weight |-> 5],
             [id |-> "", name |-> Str300, age |-> 0, weight |-> 0]}
      [] f.name = "lead" ->
            {[name |-> "bob", age |-> 18, weight |-> 5], [name |-> "", age |-> 0, weight |-> 6]}
      [] OTHER -> {0}

RECURSIVE InstancesOver(_, _)
InstancesOver(fields, i) ==
    IF i > Len(fields) THEN {NoMembers}
    ELSE {Put(m, fields[i].name, c) : m \in InstancesOver(fields, i + 1),
                                      c \in NativeCands(fields[i])}

\* the instances handed to serialize
Instances(R) == InstancesOver(R.fields, 1)

\* what uninitialized memory may hold
Junk == {[i |-> 0, h |-> 0, b |-> FALSE], [i |-> -7, h |-> 5, b |-> TRUE]}

\* the sets of nesting depths at which rendering may write nothing
RenderFailures(R) ==
    SUBSET ({0} \cup {1 : i \in {j \in DOMAIN R.fields : HasSerialize(R.fields[j].ctype)}})

\* what a call meets: where rendering fails, what uninitialized memory
\* holds, the validateData flag, the size argument, and the counters of the
\* MemoryTracker when the call is made
NoEnv == [renderFails |-> {}, u |-> [i |-> 0, h |-> 0, b |-> FALSE],
          validateData |-> TRUE, size |-> 0, total0 |-> 0, peak0 |-> 0]

NoResult == Failure(SerializationError.SUCCESS, "", "", EmptyString)
NoReturn == EmptyString
\* the program holds no text yet / no instance
NoText == Malformed("")
NoInstance == NoMembers
\* json was not produced by serializeWithResult / was, with these render failures
NotFed == [is |-> FALSE, renderFails |-> {}]
\* no concurrent thread of control
NoProcs == <<>>
FedBy(e) == [is |-> TRUE, renderFails |-> e.renderFails]

(***************************************************************************)
(* The state machine.  Init fixes the record type and the arguments; the   *)
(* actions are the calls a program makes on them.                          *)
(***************************************************************************)
Tracker == [totalAllocated |-> totalAllocated, peakUsage |-> peakUsage]

Sequential ==
    /\ fed = NotFed
    /\ totalAllocated = 0
    /\ peakUsage = 0
    /\ op = "init"
    /\ cenv = NoEnv
    /\ res = NoResult
    /\ ret = NoReturn
    /\ nops = 0

Start == Sequential /\ procs = NoProcs

Init ==
    /\ T \in Types
    /\ \/ json \in Texts(T) /\ inst = NoInstance
       \/ json = NoText /\ inst \in Instances(T)
    /\ Start

Returned(name, e, r, result, value) ==
    /\ op' = name
    /\ cenv' = [e EXCEPT !.total0 = totalAllocated, !.peak0 = peakUsage]
    /\ res' = result
    /\ ret' = value
    /\ totalAllocated' = r.mt.totalAllocated
    /\ peakUsage' = r.mt.peakUsage
    /\ UNCHANGED <<T, json, inst, fed, nops, procs>>

\* inst.serializeWithResult(), V2.4
SerializeWithResult ==
    /\ T.lib = "v24"
    /\ inst # NoInstance
    /\ \E rf \in RenderFailures(T) :
          LET e == [NoEnv EXCEPT !.renderFails = rf]
              r == serializeWithResult(T, inst, Tracker, e, 0)
          IN Returned("serializeWithResult", e, r, r.res, NoReturn)

\* inst.serialize(), V2.4
Serialize ==
    /\ T.lib = "v24"
    /\ inst # NoInstance
    /\ \E rf \in RenderFailures(T) :
          LET e == [NoEnv EXCEPT !.renderFails = rf]
              r == serialize(T, inst, Tracker, e, 0)
          IN Returned("serialize", e, r, NoResult, r.data)

\* T::deserializeWithResult(json), V2.4
DeserializeWithResult ==
    /\ T.lib = "v24"
    /\ json # NoText
    /\ \E u \in Junk :
          LET e == [NoEnv EXCEPT !.u = u]
              r == deserializeWithResult(T, json, Tracker, e)
          IN Returned("deserializeWithResult", e, r, r.res, NoReturn)

\* T::validateSchema(o) on the object of a document the caller parsed
ValidateSchema ==
    /\ T.lib = "v24"
    /\ json # NoText
    /\ LET parsed == deserializeJson(json, DocCapacity)
           r == [mt |-> Tracker] IN
       /\ parsed.err = "Ok"
       /\ Returned("validateSchema", NoEnv, r,
                   validateSchema(T, AsJsonObject(parsed.root)), NoReturn)

\* T::deserialize(json), V2.4
Deserialize ==
    /\ T.lib = "v24"
    /\ json # NoText
    /\ \E u \in Junk :
          LET e == [NoEnv EXCEPT !.u = u]
              r == deserialize(T, json, Tracker, e)
          IN Returned("deserialize", e, r, NoResult, r.data)

\* inst.serializeWithResult(), V2
SerializeWithResultV2 ==
    /\ T.lib \in {"v2", "v2val"}
    /\ inst # NoInstance
    /\ \E rf \in RenderFailures(T) :
          LET e == [NoEnv EXCEPT !.renderFails = rf]
              r == serializeWithResultV2(T, inst, Tracker, e, 0)
          IN Returned("serializeWithResult", e, r, r.res, NoReturn)

\* T::deserializeWithResult(json) and T::deserializeWithResult(json, validateData), V2
DeserializeWithResultV2 ==
    /\ T.lib \in {"v2", "v2val"}
    /\ json # NoText
    /\ \E u \in Junk, validateData \in BOOLEAN :
          /\ T.lib = "v2" => validateData
          /\ LET e == [NoEnv EXCEPT !.u = u, !.validateData = validateData]
                 r == deserializeWithResultV2(T, json, validateData, Tracker, e)
             IN Returned("deserializeWithResult", e, r, r.res, NoReturn)

\* T::deserialize(json) and T::deserialize(json, validateData), V2
DeserializeV2 ==
    /\ T.lib \in {"v2", "v2val"}
    /\ json # NoText
    /\ \E u \in Junk, validateData \in BOOLEAN :
          /\ T.lib = "v2" => ~validateData
          /\ LET e == [NoEnv EXCEPT !.u = u, !.validateData = validateData]
                 r == deserializeV2(T, json, validateData, Tracker, e)
             IN Returned("deserialize", e, r, NoResult, r.data)

\* the caller hands the text a successful serializeWithResult produced to
\* deserialize
Feed ==
    /\ op = "serializeWithResult"
    /\ res.success
    /\ ~fed.is
    /\ json' = res.data
    /\ fed' = FedBy(cenv)
    /\ op' = "feed"
    /\ UNCHANGED <<T, inst, totalAllocated, peakUsage, cenv, res, ret, nops, procs>>

Calls ==
    \/ SerializeWithResult
    \/ Serialize
    \/ ValidateSchema
    \/ DeserializeWithResult
    \/ Deserialize
    \/ SerializeWithResultV2
    \/ DeserializeWithResultV2
    \/ DeserializeV2
    \/ Feed

Next == Calls

Spec == Init /\ [][Next]_vars

(***************************************************************************)
(* The same calls mixed with direct calls of the MemoryTracker.            *)
(***************************************************************************)
MaxTrackerCalls == 2

\* sizes passed to the tracker: small, a buffer, and near the top of size_t
TrackerSizes == {0, 1, DocCapacity, SizeModulus - DocCapacity, SizeModulus - 1}

TrackerStep(name, size, mt) ==
    /\ nops < MaxTrackerCalls
    /\ nops' = nops + 1
    /\ op' = name
    /\ cenv' = [NoEnv EXCEPT !.size = size, !.total0 = totalAllocated, !.peak0 = peakUsage]
    /\ totalAllocated' = mt.totalAllocated
    /\ peakUsage' = mt.peakUsage
    /\ res' = NoResult
    /\ ret' = NoReturn
    /\ UNCHANGED <<T, json, inst, fed, procs>>

\* MemoryTracker::recordAllocation(size)
RecordAllocation ==
    \E size \in TrackerSizes :
        TrackerStep("recordAllocation", size, recordAllocation(Tracker, size))

\* MemoryTracker::recordDeallocation(size)
RecordDeallocation ==
    \E size \in TrackerSizes :
        TrackerStep("recordDeallocation", size, recordDeallocation(Tracker, size))

\* a record type, a text and an instance of it
TrackerWorlds ==
    { [T |-> User, json |-> EmptyObjectText,
       inst |-> [username |-> "bob", role |-> "guest", age |-> 18, note |-> "",
                 address |-> [city |-> "ab", zip |-> 7]]],
      [T |-> Member, json |-> WellFormed(TObj([name |-> JStr("bob"), age |-> TInt(17)])),
       inst |-> [name |-> "bob", age |-> 18, weight |-> 5]] }

InitTracker ==
    /\ \E w \in TrackerWorlds : T = w.T /\ json = w.json /\ inst = w.inst
    /\ Start

NextTracker == RecordAllocation \/ RecordDeallocation \/ Calls

SpecTracker == InitTracker /\ [][NextTracker]_vars

(***************************************************************************)
(* Concurrent calls.  Threads of control call serializeWithResult and      *)
(* deserializeWithResult on a record type without nested records, with no  *)
(* synchronization.  The counters of MemoryTracker are the only memory the *)
(* calls share; each read and each write of totalAllocated is a step of    *)
(* its own, so that updates can be lost.  A call works on its arguments    *)
(* and locals otherwise: its Result is what the code computes from the     *)
(* arguments and the counters the call meets when it starts.               *)
(***************************************************************************)
NumProcs == 2
Procs == 1..NumProcs

\* met: the call ran while another call was between its entry and its return
Idle == [pc |-> "idle", call |-> "", e |-> NoEnv, read |-> 0, res |-> NoResult, met |-> FALSE]

\* q is past its entry and has not returned
Running(q) == procs[q].pc \notin {"idle", "done"}

\* p enters a call that goes on at pc
Entered(p, pc, call, e, r) ==
    [q \in Procs |->
        IF q = p
          THEN [pc |-> pc, call |-> call, e |-> e, read |-> 0, res |-> r,
                met |-> pc # "done" /\ \E o \in Procs \ {p} : Running(o)]
        ELSE IF pc # "done" /\ Running(q) THEN [procs[q] EXCEPT !.met = TRUE]
        ELSE procs[q]]

\* a record type, a text and an instance of it
ConcurrentWorlds ==
    { [T |-> Item, json |-> WellFormed(TObj([sku |-> JStr("ab"), qty |-> TInt(1)])),
       inst |-> [sku |-> "ab", qty |-> 9]],
      [T |-> Item, json |-> WellFormed(TObj([sku |-> JStr("ab")])),
       inst |-> [sku |-> "ab", qty |-> 1]] }

InitConcurrent ==
    /\ \E w \in ConcurrentWorlds : T = w.T /\ json = w.json /\ inst = w.inst
    /\ Sequential
    /\ procs = [p \in Procs |-> Idle]

Shared == <<T, json, inst, fed, op, cenv, res, ret, nops>>

\* where serializeWithResult() goes after validateSelf(): it returns the
\* failure at once, or goes on to account for its document
AfterValidateSelf(R, x, mt, env) ==
    IF validateSelf(R, x, mt, env, 0).res.success THEN "allocRead" ELSE "done"

\* p enters serializeWithResult(): validateSelf runs before any accounting
BeginSerialize(p) ==
    /\ procs[p].pc = "idle"
    /\ \E rf \in RenderFailures(T) :
          LET e == [NoEnv EXCEPT !.renderFails = rf]
              r == serializeWithResult(T, inst, Tracker, e, 0).res IN
          procs' = Entered(p, AfterValidateSelf(T, inst, Tracker, e),
                           "serializeWithResult", e, r)
    /\ UNCHANGED <<Shared, totalAllocated, peakUsage>>

\* p enters deserializeWithResult(json)
BeginDeserialize(p) ==
    /\ procs[p].pc = "idle"
    /\ \E u \in Junk :
          LET e == [NoEnv EXCEPT !.u = u]
              r == deserializeWithResult(T, json, Tracker, e).res IN
          procs' = Entered(p, "allocRead", "deserializeWithResult", e, r)
    /\ UNCHANGED <<Shared, totalAllocated, peakUsage>>

\* recordAllocation(512): totalAllocated += size, the read
AllocRead(p) ==
    /\ procs[p].pc = "allocRead"
    /\ procs' = [procs EXCEPT ![p].pc = "allocWrite", ![p].read = totalAllocated]
    /\ UNCHANGED <<Shared, totalAllocated, peakUsage>>

\* recordAllocation(512): totalAllocated += size, the write
AllocWrite(p) ==
    /\ procs[p].pc = "allocWrite"
    /\ totalAllocated' = (procs[p].read + DocCapacity) % SizeModulus
    /\ procs' = [procs EXCEPT ![p].pc = "peak"]
    /\ UNCHANGED <<Shared, peakUsage>>

\* recordAllocation(512): if (totalAllocated > peakUsage) peakUsage = totalAllocated
PeakUpdate(p) ==
    /\ procs[p].pc = "peak"
    /\ peakUsage' = IF totalAllocated > peakUsage THEN totalAllocated ELSE peakUsage
    /\ procs' = [procs EXCEPT ![p].pc = "deallocRead"]
    /\ UNCHANGED <<Shared, totalAllocated>>

\* recordDeallocation(512): the read of totalAllocated
DeallocRead(p) ==
    /\ procs[p].pc = "deallocRead"
    /\ procs' = [procs EXCEPT ![p].pc = "deallocWrite", ![p].read = totalAllocated]
    /\ UNCHANGED <<Shared, totalAllocated, peakUsage>>

\* the end of a call that leaves out recordDeallocation(512)
DeallocWrite_Skipped(p) ==
    /\ procs[p].pc = "deallocWrite"
    /\ procs' = [procs EXCEPT ![p].pc = "done"]
    /\ UNCHANGED <<Shared, totalAllocated, peakUsage>>

\* recordDeallocation(512): if (totalAllocated >= size) totalAllocated -= size
\* on the value read, and the call returns
DeallocWrite(p) ==
    /\ procs[p].pc = "deallocWrite"
    /\ totalAllocated' = IF procs[p].read >= DocCapacity
                           THEN procs[p].read - DocCapacity
                           ELSE totalAllocated
    /\ procs' = [procs EXCEPT ![p].pc = "done"]
    /\ UNCHANGED <<Shared, peakUsage>>

NextConcurrent ==
    \E p \in Procs :
        \/ BeginSerialize(p)
        \/ BeginDeserialize(p)
        \/ AllocRead(p)
        \/ AllocWrite(p)
        \/ PeakUpdate(p)
        \/ DeallocRead(p)
        \/ DeallocWrite(p)

SpecConcurrent == InitConcurrent /\ [][NextConcurrent]_vars

(***************************************************************************)
(* The rules of a schema, as the specification words them: presence when   *)
(* required, runtime kind, numeric bounds, length bounds, enum membership. *)
(* Bounds are compared as the numbers they are, in halves.                 *)
(***************************************************************************)
KindRuleBroken(f, v) ==
    CASE f.type = FieldType.INT -> v.k # "int"
      [] f.type = FieldType.FLOAT -> v.k \notin {"int", "float"}
      [] f.type = FieldType.BOOL -> v.k # "bool"
      [] f.type = FieldType.STRING -> v.k # "str"
      [] f.type = FieldType.OBJECT -> v.k # "obj"
      [] OTHER -> FALSE

NumberInHalves(v) == IF v.k = "int" THEN 2 * v.n ELSE v.h

BoundRuleBroken(f, v) ==
    /\ f.type \in {FieldType.INT, FieldType.FLOAT}
    /\ \/ ~f.minValue.nan /\ NumberInHalves(v) < f.minValue.h
       \/ ~f.maxValue.nan /\ NumberInHalves(v) > f.maxValue.h

LengthRuleBroken(f, v) ==
    /\ f.type = FieldType.STRING
    /\ \/ f.minLength >= 0 /\ Len(v.s) < f.minLength
       \/ f.maxLength >= 0 /\ Len(v.s) > f.maxLength

EnumRuleBroken(f, v) ==
    /\ f.type = FieldType.STRING
    /\ f.allowedValues # NULLPTR
    /\ v.s \notin {f.allowedValues[j] : j \in 1..f.allowedCount}

\* the validated field f has a rule that the object o breaks
Violates(f, o) ==
    /\ f.validate
    /\ IF f.name \notin DOMAIN o THEN f.required
       ELSE LET v == o[f.name] IN
            \/ KindRuleBroken(f, v)
            \/ ~KindRuleBroken(f, v) /\ BoundRuleBroken(f, v)
            \/ ~KindRuleBroken(f, v) /\ LengthRuleBroken(f, v)
            \/ ~KindRuleBroken(f, v) /\ EnumRuleBroken(f, v)

\* the positions, in declaration order, of the fields of R that o violates
Violations(R, o) == {i \in DOMAIN R.fields : Violates(R.fields[i], o)}

First(S) == CHOOSE i \in S : \A j \in S : i <= j

\* the object the current text parses to, when it parses
ParsedOk == json # NoText /\ deserializeJson(json, DocCapacity).err = "Ok"
ParsedObject == AsJsonObject(deserializeJson(json, DocCapacity).root)

\* C1: when several fields of a schema violate their rules, validateSchema
\* fails and names the violating field that comes first in declaration order.
C1_FirstViolationReported ==
    (op = "validateSchema" /\ Cardinality(Violations(T, ParsedObject)) >= 2)
        => /\ ~res.success
           /\ res.error.fieldPath = T.fields[First(Violations(T, ParsedObject))].name

\* C2: validateSchema returns Success exactly when every validated field of
\* the schema passes every rule that applies to it.
C2_SuccessIffNoViolation ==
    op = "validateSchema" => (res.success <=> Violations(T, ParsedObject) = {})

\* the current text without the members that belong to unvalidated fields
Unvalidated(R) == {R.fields[i].name : i \in {j \in DOMAIN R.fields : ~R.fields[j].validate}}
StripMembers(m, names) == [n \in (DOMAIN m) \ names |-> m[n]]
StrippedText ==
    IF json.wf /\ json.root.k = "obj"
      THEN WellFormed(TObj(StripMembers(json.root.m, Unvalidated(T))))
      ELSE json
TrackerBefore == [totalAllocated |-> cenv.total0, peakUsage |-> cenv.peak0]

\* an unvalidated field is in the input with a value of the wrong kind
UnvalidatedWrongKind ==
    \E i \in DOMAIN T.fields :
        /\ ~T.fields[i].validate
        /\ T.fields[i].name \in DOMAIN ParsedObject
        /\ KindRuleBroken(T.fields[i], ParsedObject[T.fields[i].name])

\* C3 as stated: whatever the input holds for the unvalidated fields,
\* validateSchema and deserializeWithResult succeed whenever they succeed on
\* the input without those members.
C3_UnvalidatedNeverFails ==
    /\ (op = "validateSchema" /\ T.lib = "v24")
          => (validateSchema(T, StripMembers(ParsedObject, Unvalidated(T))).success
                 => res.success)
    /\ (op = "deserializeWithResult" /\ T.lib = "v24")
          => (deserializeWithResult(T, StrippedText, TrackerBefore, cenv).res.success
                 => res.success)

\* C3 amended: once the text has parsed into the document, the outcome of
\* validateSchema and of deserializeWithResult (success, or the error
\* reported) is the outcome on the input without the unvalidated fields'
\* members, and no failure names an unvalidated field.
C3_UnvalidatedIgnoredOnceParsed ==
    /\ (op = "validateSchema" /\ T.lib = "v24")
          => /\ res = validateSchema(T, StripMembers(ParsedObject, Unvalidated(T)))
             /\ ~res.success => res.error.fieldPath \notin Unvalidated(T)
    /\ (op = "deserializeWithResult" /\ T.lib = "v24" /\ ParsedOk)
          => LET r == deserializeWithResult(T, StrippedText, TrackerBefore, cenv).res IN
             /\ res.success = r.success
             /\ res.error = r.error
             /\ ~res.success => res.error.fieldPath \notin Unvalidated(T)

C3_Witness ==
    /\ op = "deserializeWithResult"
    /\ T.lib = "v24"
    /\ ParsedOk
    /\ UnvalidatedWrongKind
    /\ \E i \in DOMAIN T.fields :
          ~T.fields[i].validate /\ T.fields[i].required
              /\ T.fields[i].name \notin DOMAIN ParsedObject
    /\ res.success

\* the positions of the fields of R that are required / required and validated
RequiredFields(R) == {i \in DOMAIN R.fields : R.fields[i].required}
RequiredValidated(R) ==
    {i \in DOMAIN R.fields : R.fields[i].required /\ R.fields[i].validate}

EmptyObjectDeserialized ==
    op = "deserializeWithResult" /\ T.lib = "v24" /\ json = EmptyObjectText

\* C4 as stated: deserializing {} against a schema with a required=true field
\* fails with FieldMissing and the name of a required field.
C4_EmptyObjectFieldMissing ==
    (EmptyObjectDeserialized /\ RequiredFields(T) # {})
        => /\ ~res.success
           /\ res.error.code = SerializationError.FIELD_MISSING
           /\ \E i \in RequiredFields(T) : res.error.fieldPath = T.fields[i].name

\* C4 amended: deserializing {} against a schema with a field that is both
\* required and validated fails with FieldMissing and the name of the first
\* such field in declaration order; against a schema whose required fields
\* are all unvalidated (Address) it succeeds.
C4_EmptyObjectFirstRequiredValidated ==
    EmptyObjectDeserialized
        => IF RequiredValidated(T) # {}
             THEN /\ ~res.success
                  /\ res.error.code = SerializationError.FIELD_MISSING
                  /\ res.error.fieldPath = T.fields[First(RequiredValidated(T))].name
             ELSE res.success

C4_Witness ==
    /\ EmptyObjectDeserialized
    /\ RequiredValidated(T) # {}
    /\ First(RequiredValidated(T)) > 1
    /\ ~res.success
    /\ res.error.fieldPath = T.fields[First(RequiredValidated(T))].name

\* the nested-record fields of R that are in o as objects violating the
\* nested schema
NestedOffenders(R, o) ==
    {i \in DOMAIN R.fields :
        /\ HasSerialize(R.fields[i].ctype)
        /\ R.fields[i].name \in DOMAIN o
        /\ o[R.fields[i].name].k = "obj"
        /\ Violations(R.fields[i].rec, o[R.fields[i].name].m) # {}}

\* C5: when a nested-object field is present and its object violates the
\* nested schema (the parent's own fields being in order), the parent's
\* deserializeWithResult fails and fieldPath is the bare name of the
\* offending field of the nested record.
C5_NestedViolationFailsParent ==
    (/\ op = "deserializeWithResult"
     /\ T.lib = "v24"
     /\ ParsedOk
     /\ Violations(T, ParsedObject) = {}
     /\ NestedOffenders(T, ParsedObject) # {})
        => LET f == T.fields[First(NestedOffenders(T, ParsedObject))]
               nested == ParsedObject[f.name].m IN
           /\ ~res.success
           /\ res.error.fieldPath = f.rec.fields[First(Violations(f.rec, nested))].name

\* C6: once the text has parsed and validateSchema has returned Success for
\* the record's own schema, deserializeWithResult returns Success.
C6_SuccessOnceValidated ==
    (/\ op = "deserializeWithResult"
     /\ T.lib = "v24"
     /\ ParsedOk
     /\ validateSchema(T, ParsedObject).success)
        => res.success

\* a nested record whose object breaks the nested schema, and a primitive
\* field absent, were populated
C6_Witness ==
    /\ op = "deserializeWithResult"
    /\ T.lib = "v24"
    /\ ParsedOk
    /\ validateSchema(T, ParsedObject).success
    /\ NestedOffenders(T, ParsedObject) # {}
    /\ res.success

(***************************************************************************)
(* Instances: the declared constraints of a field on a native value, and   *)
(* the room the object of an instance takes in a document.                 *)
(***************************************************************************)
NativeInHalves(f, value) == IF f.type = FieldType.INT THEN 2 * value ELSE value

ConstraintBroken(f, value) ==
    /\ f.validate
    /\ \/ /\ f.type \in {FieldType.INT, FieldType.FLOAT}
          /\ \/ ~f.minValue.nan /\ NativeInHalves(f, value) < f.minValue.h
             \/ ~f.maxValue.nan /\ NativeInHalves(f, value) > f.maxValue.h
             \/ /\ f.type = FieldType.FLOAT /\ value = FloatNaN
                /\ (~f.minValue.nan \/ ~f.maxValue.nan)
       \/ /\ f.type = FieldType.STRING
          /\ \/ f.minLength >= 0 /\ Len(value) < f.minLength
             \/ f.maxLength >= 0 /\ Len(value) > f.maxLength
             \/ /\ f.allowedValues # NULLPTR
                /\ value \notin {f.allowedValues[j] : j \in 1..f.allowedCount}

RECURSIVE InstanceValid(_, _)
\* every field of x, and of the records nested in x, satisfies its constraints
InstanceValid(R, x) ==
    \A i \in DOMAIN R.fields :
        LET f == R.fields[i] IN
        IF HasSerialize(f.ctype) THEN InstanceValid(f.rec, x[f.name])
        ELSE ~ConstraintBroken(f, x[f.name])

RECURSIVE InstanceObject(_, _)
\* the JSON object of an instance
InstanceObject(R, x) ==
    JObj([n \in FieldNames(R) |->
            LET f == FieldNamed(R, n) IN
            IF HasSerialize(f.ctype) THEN InstanceObject(f.rec, x[n])
            ELSE ToVariant(f.ctype, x[n])])

\* the object of x fits a document, and the object of each record nested in
\* x fits a sub-document
InstanceFits(R, x) ==
    /\ PoolBytes(InstanceObject(R, x)) <= DocCapacity
    /\ \A i \in DOMAIN R.fields :
          HasSerialize(R.fields[i].ctype)
              => PoolBytes(InstanceObject(R.fields[i].rec, x[R.fields[i].name])) <= SubCapacity

HasNested(R) == \E i \in DOMAIN R.fields : HasSerialize(R.fields[i].ctype)

WithResultReturned == op \in {"serializeWithResult", "deserializeWithResult"}

\* C8: each serializeWithResult / deserializeWithResult call that returned,
\* in both library versions and whatever its exit, leaves the running total
\* of MemoryTracker at the value it had immediately before the call.
C8_TotalRestored == WithResultReturned => totalAllocated = cenv.total0

\* a call that nests a record returned by the render failure exit
C8_Witness ==
    /\ op = "serializeWithResult"
    /\ ~res.success
    /\ res.error.code = SerializationError.INVALID_JSON
    /\ peakUsage >= 2 * DocCapacity
    /\ totalAllocated = cenv.total0

\* C9: no operation (recordAllocation, recordDeallocation, serialize,
\* deserialize) lowers peakUsage.
C9_PeakNeverLowered == peakUsage >= cenv.peak0

\* a deallocation took the total below a peak it left in place
C9_Witness ==
    /\ op = "recordDeallocation"
    /\ cenv.size > 0
    /\ totalAllocated < cenv.total0
    /\ peakUsage = cenv.peak0
    /\ peakUsage > totalAllocated

\* C10 as stated: recordDeallocation(bytes) with bytes larger than the
\* running total leaves the running total equal to zero.
C10_SaturatesAtZero ==
    (op = "recordDeallocation" /\ cenv.size > cenv.total0) => totalAllocated = 0

\* C10 amended: recordDeallocation never drives the running total negative;
\* with bytes at most the running total it subtracts bytes, with bytes larger
\* than the running total it leaves the running total as it was.
C10_OverDeallocationIgnored ==
    op = "recordDeallocation"
        => /\ totalAllocated >= 0
           /\ totalAllocated = IF cenv.size <= cenv.total0
                                 THEN cenv.total0 - cenv.size
                                 ELSE cenv.total0

C10_Witness ==
    /\ op = "recordDeallocation"
    /\ cenv.total0 > 0
    /\ cenv.size > cenv.total0
    /\ totalAllocated = cenv.total0

\* C11: when validateSchema fails during deserializeWithResult, the failure
\* returned carries exactly the validator's code, message and fieldPath, and
\* the instance in it is the default-constructed one: nothing of the input
\* was stored in it.
C11_ValidatorFailureVerbatim ==
    (/\ op = "deserializeWithResult"
     /\ T.lib = "v24"
     /\ ParsedOk
     /\ ~validateSchema(T, ParsedObject).success)
        => /\ ~res.success
           /\ res.error = validateSchema(T, ParsedObject).error
           /\ res.data = DefaultInit(T, cenv.u)

\* a text holding members was rejected for a bound, a length or an enum
C11_Witness ==
    /\ op = "deserializeWithResult"
    /\ T.lib = "v24"
    /\ ParsedOk
    /\ ParsedObject # NoMembers
    /\ ~res.success
    /\ res.error.code = SerializationError.TYPE_MISMATCH
    /\ res.error.message # "Expected different type"
    /\ res.data = DefaultInit(T, cenv.u)

\* a validated field of the instance itself breaks its constraints
OwnConstraintBroken ==
    \E i \in DOMAIN T.fields :
        /\ ~HasSerialize(T.fields[i].ctype)
        /\ ConstraintBroken(T.fields[i], inst[T.fields[i].name])

\* C12: in the schema-driven version, when a validated field of the instance
\* violates its constraints serializeWithResult returns the failure of the
\* validator on the instance's fields, verbatim and with no text, and
\* serialize() returns the literal "{}".
C12_SelfValidationFailure ==
    /\ (op = "serializeWithResult" /\ T.lib = "v24" /\ OwnConstraintBroken)
          => /\ ~res.success
             /\ res.error = validateSelf(T, inst, TrackerBefore, cenv, 0).res.error
             /\ res.data = EmptyString
    /\ (op = "serialize" /\ T.lib = "v24" /\ OwnConstraintBroken)
          => ret = EmptyObjectText

\* C13: for a text the parser rejects, deserializeWithResult fails with code
\* InvalidJson and an empty fieldPath, and the instance in the failure is the
\* default-constructed one (no validator error, no field stored).
C13_ParseFailure ==
    (op = "deserializeWithResult" /\ json # NoText
        /\ deserializeJson(json, DocCapacity).err # "Ok")
        => /\ ~res.success
           /\ res.error.code = SerializationError.INVALID_JSON
           /\ res.error.fieldPath = ""
           /\ res.data = DefaultInit(T, cenv.u)

\* a malformed text was handed to a record type with a required field
C13_Witness ==
    /\ op = "deserializeWithResult"
    /\ T.lib = "v24"
    /\ ~json.wf
    /\ RequiredValidated(T) # {}
    /\ ~res.success
    /\ res.error.code = SerializationError.INVALID_JSON

\* validateSchema returned, field i is validated and present, and no other
\* field of the schema is violated
OnlyFieldAtStake(i) ==
    /\ op = "validateSchema"
    /\ T.fields[i].validate
    /\ T.fields[i].name \in DOMAIN ParsedObject
    /\ Violations(T, ParsedObject) \ {i} = {}

RejectedFor(f) ==
    /\ ~res.success
    /\ res.error.code = SerializationError.TYPE_MISMATCH
    /\ res.error.fieldPath = f.name

\* C14: for an Int field declared with range(min, max), whatever the bounds
\* (integral or not), a present integral value v is rejected with
\* TypeMismatch if and only if v < min or v > max.
C14_IntBoundsInclusive ==
    \A i \in DOMAIN T.fields :
        (/\ OnlyFieldAtStake(i)
         /\ T.fields[i].type = FieldType.INT
         /\ ParsedObject[T.fields[i].name].k = "int")
            => (RejectedFor(T.fields[i])
                   <=> BoundRuleBroken(T.fields[i], ParsedObject[T.fields[i].name]))

\* C15: for a String field declared with enumOf(values), a present string is
\* accepted if and only if it equals one member of values; any other string
\* is rejected with TypeMismatch and the field's name.
C15_EnumMembership ==
    \A i \in DOMAIN T.fields :
        (/\ OnlyFieldAtStake(i)
         /\ T.fields[i].type = FieldType.STRING
         /\ T.fields[i].allowedValues # NULLPTR
         /\ ParsedObject[T.fields[i].name].k = "str"
         /\ ~LengthRuleBroken(T.fields[i], ParsedObject[T.fields[i].name]))
            => IF \E j \in 1..T.fields[i].allowedCount :
                     T.fields[i].allowedValues[j] = ParsedObject[T.fields[i].name].s
                 THEN res.success
                 ELSE RejectedFor(T.fields[i]) /\ res.error.message = "Invalid enum value"

\* the last member of the list was accepted
C15_Witness ==
    /\ op = "validateSchema"
    /\ T = User
    /\ Violations(T, ParsedObject) = {}
    /\ "role" \in DOMAIN ParsedObject
    /\ ParsedObject["role"] = JStr("guest")
    /\ res.success

DeclaredOnlyText ==
    IF json.wf /\ json.root.k = "obj"
      THEN WellFormed(TObj(StripMembers(json.root.m, (DOMAIN json.root.m) \ FieldNames(T))))
      ELSE json

HasUndeclaredKey == json.wf /\ json.root.k = "obj" /\ UndeclaredKey \in DOMAIN json.root.m

RECURSIVE KeysDeclared(_, _)
\* the object m, and the objects nested in it, hold declared field names only
KeysDeclared(R, m) ==
    /\ DOMAIN m \subseteq FieldNames(R)
    /\ \A n \in DOMAIN m :
          (HasSerialize(FieldNamed(R, n).ctype) /\ m[n].k = "obj")
              => KeysDeclared(FieldNamed(R, n).rec, m[n].m)

Emitted ==
    (op = "serializeWithResult" /\ T.lib = "v24" /\ res.success)
        => KeysDeclared(T, res.data.root.m)

\* C17 as stated: adding undeclared key/value pairs to an input changes
\* neither the Result of deserializeWithResult nor any field of the produced
\* instance, and the object written holds declared field names only.
C17_UndeclaredKeysIgnored ==
    /\ (op = "deserializeWithResult" /\ T.lib = "v24")
          => res = deserializeWithResult(T, DeclaredOnlyText, TrackerBefore, cenv).res
    /\ Emitted

\* C17 amended: as long as the text with the undeclared pairs still parses
\* into the 512-byte document, they change neither the Result nor any field
\* of the produced instance; the object written holds declared names only.
C17_UndeclaredKeysIgnoredOnceParsed ==
    /\ (op = "deserializeWithResult" /\ T.lib = "v24" /\ ParsedOk)
          => res = deserializeWithResult(T, DeclaredOnlyText, TrackerBefore, cenv).res
    /\ Emitted

C17_Witness ==
    /\ op = "deserializeWithResult"
    /\ T.lib = "v24"
    /\ ParsedOk
    /\ HasUndeclaredKey
    /\ DOMAIN ParsedObject # {UndeclaredKey}
    /\ res.success

\* C18: deserialize(text) returns the instance of deserializeWithResult(text)
\* when that call succeeds, and the value-initialized instance structName()
\* when it fails; nothing of a rejected input is in it.
C18_ConvenienceDeserialize ==
    (op = "deserialize" /\ T.lib = "v24")
        => LET r == deserializeWithResult(T, json, TrackerBefore, cenv).res IN
           ret = IF r.success THEN r.data ELSE ValueInit(T)

\* a text with members was rejected by validation while the memory of the
\* local instance held other values than zero
C18_Witness ==
    /\ op = "deserialize"
    /\ T.lib = "v24"
    /\ ParsedOk
    /\ ParsedObject # NoMembers
    /\ ~validateSchema(T, ParsedObject).success
    /\ DefaultInit(T, cenv.u) # ValueInit(T)
    /\ ret = ValueInit(T)

\* the optional() fields of T that the parsed input does not hold
OptionalAbsent ==
    {i \in DOMAIN T.fields :
        /\ T.fields[i].validate
        /\ ~T.fields[i].required
        /\ T.fields[i].name \notin DOMAIN ParsedObject}

\* C20: an optional() field (nested-object fields included) that is absent
\* from the input never causes a failure: no failure names it, the call
\* succeeds when no other field is violated, and on success the instance
\* field holds its default-constructed value.
C20_OptionalAbsent ==
    (op = "deserializeWithResult" /\ T.lib = "v24" /\ ParsedOk)
        => \A i \in OptionalAbsent :
              /\ ~res.success => res.error.fieldPath # T.fields[i].name
              /\ Violations(T, ParsedObject) = {} => res.success
              /\ res.success
                    => res.data[T.fields[i].name] = DefaultInit(T, cenv.u)[T.fields[i].name]

\* an optional nested-object field was omitted and the call succeeded
C20_Witness ==
    /\ op = "deserializeWithResult"
    /\ T.lib = "v24"
    /\ ParsedOk
    /\ \E i \in OptionalAbsent : HasSerialize(T.fields[i].ctype)
    /\ ParsedObject # NoMembers
    /\ DefaultInit(T, cenv.u) # ValueInit(T)
    /\ res.success

\* the Result the call of p returns when no other call runs
ResultAlone(p) ==
    LET fresh == [totalAllocated |-> 0, peakUsage |-> 0] IN
    IF procs[p].call = "serializeWithResult"
      THEN serializeWithResult(T, inst, fresh, procs[p].e, 0).res
      ELSE deserializeWithResult(T, json, fresh, procs[p].e).res

ValidatorBroken(d, x) ==
    LET v == d.validator
        value == x[d.field] IN
    CASE v.kind \in {"RangeInt", "RangeFloat"} ->
            (v.hasMin /\ value < v.min) \/ (v.hasMax /\ value > v.max)
      [] v.kind = "StringLength" ->
            (v.hasMin /\ Len(value) < v.min) \/ (v.hasMax /\ Len(value) > v.max)
      [] OTHER -> value = ""

BrokenValidators(R, x) == {i \in DOMAIN R.validators : ValidatorBroken(R.validators[i], x)}

\* the instance the last V2 call populated from the current text
Populated == populateV2(T, ParsedObject, 1, DefaultInit(T, cenv.u), cenv)

ValidatedDeserialized ==
    /\ op = "deserializeWithResult" /\ T.lib = "v2val"
    /\ cenv.validateData
    /\ ParsedOk

\* C21: in the validator-object version, deserializeWithResult with
\* validateData = true of a text that parses fails with VALIDATION_FAILED and
\* the field of the first failing validator in validator-list order when the
\* populated instance violates a validator, and succeeds with the populated
\* instance otherwise.
C21_ValidatesOnDeserialize ==
    ValidatedDeserialized =>
        IF BrokenValidators(T, Populated) # {}
          THEN /\ ~res.success
               /\ res.error.code = SerializationError.VALIDATION_FAILED
               /\ res.error.fieldPath =
                      T.validators[First(BrokenValidators(T, Populated))].field
          ELSE res.success /\ res.data = Populated

\* an instance that breaks a later validator only was rejected for it
C21_Witness ==
    /\ ValidatedDeserialized
    /\ BrokenValidators(T, Populated) # {}
    /\ First(BrokenValidators(T, Populated)) > 1
    /\ ~res.success

\* the nested-record fields of R whose key holds an object in o
NestedGiven(R, o) ==
    {i \in DOMAIN R.fields :
        /\ HasSerialize(R.fields[i].ctype)
        /\ R.fields[i].name \in DOMAIN o
        /\ IsJsonObject(o[R.fields[i].name])}

\* every primitive field of the nested record whose key the nested object
\* holds has the value the key converts to
TakenFrom(R, sub, x) ==
    \A j \in DOMAIN R.fields :
        (~HasSerialize(R.fields[j].ctype) /\ R.fields[j].name \in DOMAIN sub)
            => x[R.fields[j].name] = AsNative(R.fields[j].ctype, sub[R.fields[j].name])

ConvenienceV2 ==
    /\ op = "deserialize" /\ T.lib = "v2val"
    /\ ~cenv.validateData
    /\ ParsedOk

\* a parent call populated its instance and returned it
NestedReached ==
    /\ T.lib = "v2val"
    /\ ParsedOk
    /\ \/ op = "deserialize" /\ ~cenv.validateData
       \/ op = "deserializeWithResult" /\ res.success

\* C22: in the validator-object version, deserialize(json) without the flag
\* returns, for every text that parses, the populated instance, which is the
\* data of deserializeWithResult(json, false), whether or not it violates a
\* validator; and a nested record reached through a parent's deserialization
\* holds what its object holds, whether or not it violates its validators.
C22_ConvenienceSkipsValidators ==
    /\ ConvenienceV2 =>
          (/\ ret = Populated
           /\ ret = deserializeWithResultV2(T, json, FALSE, TrackerBefore, cenv).res.data)
    /\ NestedReached =>
          \A i \in NestedGiven(T, ParsedObject) :
              TakenFrom(T.fields[i].rec,
                        AsJsonObject(ParsedObject[T.fields[i].name]),
                        (IF op = "deserialize" THEN ret ELSE res.data)[T.fields[i].name])

\* deserialize(json) returned an instance that violates a validator, holding
\* a nested record that violates its own
C22_Witness ==
    /\ ConvenienceV2
    /\ BrokenValidators(T, ret) # {}
    /\ \E i \in NestedGiven(T, ParsedObject) :
          BrokenValidators(T.fields[i].rec, ret[T.fields[i].name]) # {}

\* C23: serializeWithResult records, on every exit path and also when
\* self-validation of the instance fails, an allocation of the buffer size
\* (the peak is afterwards at least the pre-call total plus the buffer size)
\* and then the matching deallocation.
C23_AllocationRecordedOnEveryExit ==
    (op = "serializeWithResult" /\ T.lib = "v24")
        => /\ peakUsage >= cenv.total0 + DocCapacity
           /\ totalAllocated = cenv.total0

\* other contents for the nested object of a field
OtherContents(f) ==
    {ParseValue(c) : c \in {tv \in TextCands(f) : tv.k = "obj"}}
        \cup {JObj(NoMembers), JObj([unknown |-> JBool(TRUE)])}

\* the validated Object-typed fields whose key holds an object in o
ValidatedObjectGiven(R, o) == {i \in NestedGiven(R, o) : R.fields[i].validate}

\* C24: for a validated Object-typed field validateSchema checks presence and
\* object shape only: replacing the contents of the nested object by any
\* other contents leaves the result of validateSchema of the parent unchanged.
C24_ObjectContentsUnchecked ==
    op = "validateSchema" =>
        \A i \in ValidatedObjectGiven(T, ParsedObject) :
            \A c \in OtherContents(T.fields[i]) :
                validateSchema(T, Put(ParsedObject, T.fields[i].name, c)) = res

\* validateSchema accepted a parent whose nested object the nested schema
\* rejects
C24_Witness ==
    /\ op = "validateSchema"
    /\ res.success
    /\ \E i \in ValidatedObjectGiven(T, ParsedObject) :
          ~validateSchema(T.fields[i].rec,
                          AsJsonObject(ParsedObject[T.fields[i].name])).success

\* the native types that have a mapping to a FieldType of their own
MappedTypes ==
    {"int", "long", "unsigned int", "unsigned long", "float", "double", "bool", "String"}

\* the fields of R whose native type has no mapping
UnknownFields(R) ==
    {i \in DOMAIN R.fields :
        R.fields[i].ctype \notin MappedTypes /\ ~HasSerialize(R.fields[i].ctype)}

\* validateSchema failed and named field f
FailedBecauseOf(f) == ~res.success /\ res.error.fieldPath = f.name

\* values of every kind
AnyKind == {JNull, JBool(TRUE), JInt(-1), JFloat(5), JStr("ab"), JArr, JObj(NoMembers)}

\* C25 as stated: whatever the input holds for a field of type Unknown, a
\* value of any kind or nothing at all, validateSchema does not fail because
\* of that field.
C25_UnknownNeverFails ==
    op = "validateSchema" =>
        \A i \in UnknownFields(T) : ~FailedBecauseOf(T.fields[i])

\* C25, amended: whatever value the input holds for a field of type Unknown,
\* validateSchema does not fail because of it and returns the same result
\* for a value of any other kind; when the input holds nothing for the
\* field, validateSchema fails because of it only with FieldMissing and only
\* when the field is validated and required.
C25_UnknownValueUnchecked ==
    op = "validateSchema" =>
        \A i \in UnknownFields(T) :
            LET f == T.fields[i] IN
            IF f.name \in DOMAIN ParsedObject
              THEN /\ f.type = FieldType.UNKNOWN
                   /\ ~FailedBecauseOf(f)
                   /\ \A c \in AnyKind : validateSchema(T, Put(ParsedObject, f.name, c)) = res
              ELSE FailedBecauseOf(f)
                     => /\ res.error.code = SerializationError.FIELD_MISSING
                        /\ f.validate /\ f.required

\* validateSchema accepted an input holding a string for a validated field
\* of a type without mapping
C25_Witness ==
    /\ op = "validateSchema"
    /\ res.success
    /\ \E i \in UnknownFields(T) :
          /\ T.fields[i].validate
          /\ T.fields[i].name \in DOMAIN ParsedObject
          /\ ParsedObject[T.fields[i].name].k = "str"

AllReturned == procs # NoProcs /\ \A p \in DOMAIN procs : procs[p].pc = "done"

\* C26: the counters are shared and unsynchronized.  Calls of which none ran
\* while another was running leave the running total at its value before
\* the calls; with interleaved read-modify-write updates a state is reachable
\* where, after both calls returned, the running total differs from it.
C26_BalancedWhenSerialized ==
    (AllReturned /\ \A p \in DOMAIN procs : ~procs[p].met) => totalAllocated = 0

\* both calls returned and the running total is not what it was before them
C26_Witness ==
    /\ AllReturned
    /\ \A p \in DOMAIN procs : procs[p].met
    /\ totalAllocated # 0

\* C27: in every state reached by recordAllocation and recordDeallocation
\* calls with arbitrary sizes, also when the running total wraps around the
\* width of size_t, peakUsage >= totalAllocated.
C27_PeakAtLeastTotal == peakUsage >= totalAllocated

\* a recordAllocation made the running total wrap around
C27_Witness ==
    /\ op = "recordAllocation"
    /\ cenv.total0 + cenv.size >= SizeModulus
    /\ totalAllocated < cenv.total0
    /\ totalAllocated > 0

\* the default-constructed instances of R: "structName()" and
\* "structName data;" over what uninitialized memory may hold
DefaultConstructed(R) == {ValueInit(R)} \cup {DefaultInit(R, u) : u \in Junk}

\* the nested object the input holds for field f passes the nested schema
NestedAccepted(f, o) ==
    /\ f.name \in DOMAIN o
    /\ IsJsonObject(o[f.name])
    /\ validateSchema(f.rec, AsJsonObject(o[f.name])).success

ParentSucceeded ==
    /\ op = "deserializeWithResult" /\ T.lib = "v24"
    /\ res.success

\* C28: after a parent deserializeWithResult returned Success, each
\* nested-record field of the instance is the instance deserialized from the
\* nested object when that object passes the nested schema, and a
\* default-constructed nested instance otherwise (key absent, not an object,
\* or nested validation failed); it is never populated in part from a nested
\* object that failed validation.
C28_NestedAllOrNothing ==
    ParentSucceeded =>
        \A i \in DOMAIN T.fields :
            HasSerialize(T.fields[i].ctype) =>
                LET f == T.fields[i]
                    value == res.data[f.name] IN
                IF NestedAccepted(f, ParsedObject)
                  THEN /\ TakenFrom(f.rec, AsJsonObject(ParsedObject[f.name]), value)
                       /\ \E u \in Junk :
                             value = deserializeWithResult(f.rec,
                                         WellFormed(RenderValue(ParsedObject[f.name])),
                                         TrackerBefore, [cenv EXCEPT !.u = u]).res.data
                  ELSE value \in DefaultConstructed(f.rec)

\* the parent succeeded over a nested object that holds a good member and a
\* bad one, and the good member is not in the nested instance
C28_Witness ==
    /\ ParentSucceeded
    /\ \E i \in NestedGiven(T, ParsedObject) :
          LET f == T.fields[i]
              sub == AsJsonObject(ParsedObject[f.name]) IN
          /\ ~NestedAccepted(f, ParsedObject)
          /\ \E j \in DOMAIN f.rec.fields :
                /\ f.rec.fields[j].name \in DOMAIN sub
                /\ validateField(f.rec.fields[j], sub).success
                /\ res.data[f.name][f.rec.fields[j].name]
                       # AsNative(f.rec.fields[j].ctype, sub[f.rec.fields[j].name])

\* the current text was returned by a successful serializeWithResult of T
\* and was handed to deserializeWithResult
SerializedDeserialized ==
    /\ op = "deserializeWithResult" /\ T.lib = "v24"
    /\ fed.is

TextFits == PoolBytes(json.root) <= DocCapacity

\* C29: every text a successful serializeWithResult of a record type
\* returned is accepted by deserializeWithResult of the same type, with no
\* parse failure and no validation failure, when the text fits the document
\* buffer.
C29_SerializedTextAccepted ==
    (SerializedDeserialized /\ TextFits) => res.success

\* the text parsed and its root is an array, a number, a string, a boolean
\* or null
OtherRootDeserialized ==
    /\ op = "deserializeWithResult" /\ T.lib = "v24"
    /\ ParsedOk
    /\ json.root.k # "obj"

\* C30: deserializeWithResult treats a text that parses to a root other than
\* an object like the empty object: it fails with FieldMissing for the first
\* field in declaration order that is validated and required, or succeeds
\* with a default-constructed instance when the schema has no such field; it
\* never reports InvalidJson or TypeMismatch.
C30_OtherRootLikeEmptyObject ==
    OtherRootDeserialized =>
        /\ res = deserializeWithResult(T, EmptyObjectText, TrackerBefore, cenv).res
        /\ IF RequiredValidated(T) # {}
             THEN /\ ~res.success
                  /\ res.error.code = SerializationError.FIELD_MISSING
                  /\ res.error.fieldPath = T.fields[First(RequiredValidated(T))].name
             ELSE /\ res.success
                  /\ res.data = DefaultInit(T, cenv.u)

\* a string root was deserialized into a default-constructed instance
C30_Witness ==
    /\ OtherRootDeserialized
    /\ json.root.k = "str"
    /\ res.success
    /\ DOMAIN res.data # {}
====
